---------------------------- MODULE Spec2Model ----------------------------
(***************************************************************************)
(* Overtime salary calculation: the SalaryCalculatorService                *)
(* (src/src/utils/SalaryCalculatorService.ts) and the inline calculation   *)
(* of the SalaryCalculator component                                       *)
(* (src/src/components/SalaryCalculator.tsx).                              *)
(*                                                                         *)
(* A JavaScript number is modelled as an exact rational n/d in lowest      *)
(* terms, or one of the three non-finite values NaN, +Infinity, -Infinity. *)
(* A JavaScript string is modelled as a sequence of one-character strings. *)
(***************************************************************************)
EXTENDS Integers, Sequences, FiniteSets, TLC

(***************************************************************************)
(* Numbers                                                                 *)
(***************************************************************************)
Abs(i) == IF i < 0 THEN -i ELSE i

RECURSIVE GCD(_, _)
GCD(a, b) == IF b = 0 THEN a ELSE GCD(b, a % b)

\* The rational n/d (d # 0) in lowest terms with a positive denominator.
Fin(n, d) ==
  LET g == GCD(Abs(n), Abs(d))
      s == IF d < 0 THEN -1 ELSE 1
  IN  [k |-> "fin", n |-> (s * n) \div g, d |-> (s * d) \div g]

Num(i) == [k |-> "fin", n |-> i, d |-> 1]
NaN == [k |-> "nan", n |-> 0, d |-> 1]
PosInf == [k |-> "pinf", n |-> 1, d |-> 1]
NegInf == [k |-> "ninf", n |-> -1, d |-> 1]
Zero == Num(0)

IsNaN(x) == x.k = "nan"
IsFinite(x) == x.k = "fin"

\* -1, 0 or 1; meaningless for NaN.
Sign(x) == IF x.n < 0 THEN -1 ELSE IF x.n > 0 THEN 1 ELSE 0

NumNeg(a) ==
  CASE a.k = "fin" -> [a EXCEPT !.n = -a.n]
    [] a.k = "pinf" -> NegInf
    [] a.k = "ninf" -> PosInf
    [] OTHER -> NaN

\* a * b
NumMul(a, b) ==
  IF IsNaN(a) \/ IsNaN(b) THEN NaN
  ELSE IF IsFinite(a) /\ IsFinite(b) THEN
    LET g1 == GCD(Abs(a.n), b.d)
        g2 == GCD(Abs(b.n), a.d)
    IN  [k |-> "fin",
         n |-> (a.n \div g1) * (b.n \div g2),
         d |-> (a.d \div g2) * (b.d \div g1)]
  ELSE IF Sign(a) * Sign(b) = 0 THEN NaN
  ELSE IF Sign(a) * Sign(b) > 0 THEN PosInf
  ELSE NegInf

\* a + b
NumAdd(a, b) ==
  IF IsNaN(a) \/ IsNaN(b) THEN NaN
  ELSE IF IsFinite(a) /\ IsFinite(b) THEN
    LET g == GCD(a.d, b.d)
    IN  Fin(a.n * (b.d \div g) + b.n * (a.d \div g), (a.d \div g) * b.d)
  ELSE IF IsFinite(a) THEN b
  ELSE IF IsFinite(b) THEN a
  ELSE IF a.k = b.k THEN a
  ELSE NaN

\* a - b
NumSub(a, b) == NumAdd(a, NumNeg(b))

\* a / b
NumDiv(a, b) ==
  IF IsNaN(a) \/ IsNaN(b) THEN NaN
  ELSE IF IsFinite(a) /\ IsFinite(b) THEN
    IF b.n # 0 THEN NumMul(a, Fin(b.d, b.n))
    ELSE IF a.n = 0 THEN NaN
    ELSE IF a.n > 0 THEN PosInf
    ELSE NegInf
  ELSE IF IsFinite(b) THEN (IF Sign(b) >= 0 THEN a ELSE NumNeg(a))
  ELSE IF IsFinite(a) THEN Zero
  ELSE NaN

\* a < b  (false when either side is NaN)
NumLt(a, b) ==
  IF IsNaN(a) \/ IsNaN(b) THEN FALSE
  ELSE IF IsFinite(a) /\ IsFinite(b) THEN a.n * b.d < b.n * a.d
  ELSE IF a.k = b.k THEN FALSE
  ELSE a.k = "ninf" \/ b.k = "pinf"

\* a <= b  (false when either side is NaN)
NumLeq(a, b) ==
  IF IsNaN(a) \/ IsNaN(b) THEN FALSE ELSE NumLt(a, b) \/ a = b

\* a > b
NumGt(a, b) == NumLt(b, a)

\* JavaScript truthiness of a number: 0 and NaN are falsy.
Truthy(x) == ~IsNaN(x) /\ ~(IsFinite(x) /\ x.n = 0)

\* Math.ceil
MathCeil(x) ==
  IF IsFinite(x) THEN Num(-((-x.n) \div x.d)) ELSE x

\* Math.round: the nearest integer, a tie going towards +Infinity.
MathRound(x) ==
  IF IsFinite(x) THEN Num((2 * x.n + x.d) \div (2 * x.d)) ELSE x

\* Math.round(x * 100) / 100
RoundCents(x) == NumDiv(MathRound(NumMul(x, Num(100))), Num(100))

RECURSIVE SumSeq(_)
\* seq.reduce((sum, h) => sum + h, 0)
SumSeq(s) ==
  IF s = <<>> THEN Zero
  ELSE NumAdd(SumSeq(SubSeq(s, 1, Len(s) - 1)), s[Len(s)])


(***************************************************************************)
(* Strings (sequences of one-character strings)                            *)
(***************************************************************************)
IsSpace(c) == c \in {" ", "\t", "\n"}
IsDigit(c) == c \in {"0", "1", "2", "3", "4", "5", "6", "7", "8", "9"}

DigitVal(c) ==
  CASE c = "0" -> 0 [] c = "1" -> 1 [] c = "2" -> 2 [] c = "3" -> 3
    [] c = "4" -> 4 [] c = "5" -> 5 [] c = "6" -> 6 [] c = "7" -> 7
    [] c = "8" -> 8 [] c = "9" -> 9

RECURSIVE TrimStart(_)
TrimStart(s) ==
  IF s # <<>> /\ IsSpace(Head(s)) THEN TrimStart(Tail(s)) ELSE s

RECURSIVE TrimEnd(_)
TrimEnd(s) ==
  IF s # <<>> /\ IsSpace(s[Len(s)]) THEN TrimEnd(SubSeq(s, 1, Len(s) - 1))
  ELSE s

\* String.prototype.trim
Trim(s) == TrimEnd(TrimStart(s))

\* String.prototype.includes, for a one-character needle
Includes(s, c) == \E i \in 1..Len(s) : s[i] = c

RECURSIVE Split(_, _)
\* String.prototype.split, for a one-character separator
Split(s, c) ==
  IF ~Includes(s, c) THEN <<s>>
  ELSE LET i == CHOOSE j \in 1..Len(s) :
                  s[j] = c /\ \A m \in 1..(j - 1) : s[m] # c
       IN  <<SubSeq(s, 1, i - 1)>> \o Split(SubSeq(s, i + 1, Len(s)), c)

RECURSIVE Pow10(_)
Pow10(e) == IF e = 0 THEN 1 ELSE 10 * Pow10(e - 1)

RECURSIVE DigitsEnd(_, _)
\* The first position at or after i that does not hold a digit.
DigitsEnd(s, i) ==
  IF i <= Len(s) /\ IsDigit(s[i]) THEN DigitsEnd(s, i + 1) ELSE i

RECURSIVE DigitsValue(_, _, _)
\* The decimal value of the digits s[i..j-1] (0 when there are none).
DigitsValue(s, i, j) ==
  IF j <= i THEN 0 ELSE 10 * DigitsValue(s, i, j - 1) + DigitVal(s[j - 1])

InfinityWord == <<"I", "n", "f", "i", "n", "i", "t", "y">>

\* Length of the optional sign that starts s.
SignLen(s) == IF s # <<>> /\ s[1] \in {"+", "-"} THEN 1 ELSE 0

HasDot(s, i) == i <= Len(s) /\ s[i] = "."

\* Number of fraction digits after the integer digits that start at i0.
FracDigits(s, i0) ==
  IF HasDot(s, DigitsEnd(s, i0))
    THEN DigitsEnd(s, DigitsEnd(s, i0) + 1) - (DigitsEnd(s, i0) + 1)
    ELSE 0

\* Number of digits of the mantissa that starts at i0.
MantissaDigits(s, i0) == (DigitsEnd(s, i0) - i0) + FracDigits(s, i0)

\* The first position after the mantissa that starts at i0.
MantissaEnd(s, i0) ==
  IF HasDot(s, DigitsEnd(s, i0)) /\ MantissaDigits(s, i0) > 0
    THEN DigitsEnd(s, i0) + 1 + FracDigits(s, i0)
    ELSE DigitsEnd(s, i0)

\* The value of the mantissa that starts at i0.
Mantissa(s, i0) ==
  Fin(DigitsValue(s, i0, DigitsEnd(s, i0)) * Pow10(FracDigits(s, i0))
        + DigitsValue(s, DigitsEnd(s, i0) + 1,
                      DigitsEnd(s, i0) + 1 + FracDigits(s, i0)),
      Pow10(FracDigits(s, i0)))

\* The exponent part that starts at m ("e", optional sign, digits), as a
\* signed integer; 0 when there is no complete exponent part.
Exponent(s, m) ==
  IF ~(m <= Len(s) /\ s[m] \in {"e", "E"}) THEN 0
  ELSE IF m + 1 <= Len(s) /\ s[m + 1] \in {"+", "-"}
    THEN (IF s[m + 1] = "-" THEN -1 ELSE 1)
           * DigitsValue(s, m + 2, DigitsEnd(s, m + 2))
    ELSE DigitsValue(s, m + 1, DigitsEnd(s, m + 1))

\* The unsigned decimal literal that starts at i0; NaN when there is none.
UnsignedLiteral(s, i0) ==
  IF Len(s) >= i0 + 7 /\ SubSeq(s, i0, i0 + 7) = InfinityWord THEN PosInf
  ELSE IF MantissaDigits(s, i0) = 0 THEN NaN
  ELSE IF Exponent(s, MantissaEnd(s, i0)) < 0
    THEN NumDiv(Mantissa(s, i0), Num(Pow10(-Exponent(s, MantissaEnd(s, i0)))))
    ELSE NumMul(Mantissa(s, i0), Num(Pow10(Exponent(s, MantissaEnd(s, i0)))))

\* parseFloat applied to a string without leading white space.
ParseSigned(s) ==
  IF s # <<>> /\ s[1] = "-" THEN NumNeg(UnsignedLiteral(s, 2))
  ELSE UnsignedLiteral(s, SignLen(s) + 1)

\* The global parseFloat: leading white space is skipped and the longest
\* prefix that is a decimal literal is converted; anything after it is
\* ignored; NaN when there is no such prefix.
parseFloat(str) == ParseSigned(TrimStart(str))

\* Number.prototype.toFixed(k): the number shown with k decimals (ties away
\* from zero). The shown text is represented by the number it denotes.
ToFixed(x, k) ==
  IF ~IsFinite(x) THEN x
  ELSE LET p == Pow10(k)
           q == (2 * Abs(x.n) * p + x.d) \div (2 * x.d)
       IN  Fin((IF x.n < 0 THEN -1 ELSE 1) * q, p)

DigitChar(v) ==
  <<"0", "1", "2", "3", "4", "5", "6", "7", "8", "9">>[v + 1]

RECURSIVE NatText(_)
\* The decimal digits of a natural number.
NatText(n) ==
  IF n < 10 THEN <<DigitChar(n)>>
  ELSE NatText(n \div 10) \o <<DigitChar(n % 10)>>

RECURSIVE PadStart(_, _)
\* String.prototype.padStart(k, "0")
PadStart(s, k) == IF Len(s) >= k THEN s ELSE PadStart(<<"0">> \o s, k)

\* Number.prototype.toFixed(k), as the text it returns.
ToFixedText(x, k) ==
  CASE x.k = "nan" -> <<"N", "a", "N">>
    [] x.k = "pinf" -> InfinityWord
    [] x.k = "ninf" -> <<"-">> \o InfinityWord
    [] OTHER ->
         (IF x.n < 0 THEN <<"-">> ELSE <<>>)
           \o NatText(Abs(ToFixed(x, k).n * (Pow10(k) \div ToFixed(x, k).d))
                        \div Pow10(k))
           \o (IF k = 0 THEN <<>>
               ELSE <<".">>
                      \o PadStart(
                           NatText(Abs(ToFixed(x, k).n
                                         * (Pow10(k) \div ToFixed(x, k).d))
                                     % Pow10(k)), k))

(***************************************************************************)
(* Rate tables                                                             *)
(***************************************************************************)
RateKeys ==
  {"weekdayFirst2hr", "weekdayNext2hr", "weekdayEmergency", "restDayFirst2hr",
   "restDay2to8hr", "restDayOver8hr", "holidayRate", "regularDayOffRate"}

DEFAULT_RATES ==
  [weekdayFirst2hr |-> Fin(4, 3),
   weekdayNext2hr |-> Fin(5, 3),
   weekdayEmergency |-> Num(2),
   restDayFirst2hr |-> Fin(4, 3),
   restDay2to8hr |-> Fin(5, 3),
   restDayOver8hr |-> Fin(8, 3),
   holidayRate |-> Num(2),
   regularDayOffRate |-> Num(2)]

(***************************************************************************)
(* Category labels. The source keys the result by four Chinese labels; the *)
(* model uses the name of the WorkDataInput field the category is read     *)
(* from: weekdayOvertime, restDayWork, holidayWork, regularDayOffWork.     *)
(* Holiday types: "holiday" is the statutory holiday, "regular" the        *)
(* regular day off.                                                        *)
(***************************************************************************)
Categories == <<"weekdayOvertime", "restDayWork", "holidayWork",
                "regularDayOffWork">>

\* One line of a calculation's details: the fixed text (by tag) and the
\* numbers interpolated into it.
Line(tag, hours, hourlyRate, mult, amount) ==
  [tag |-> tag, hours |-> hours, rate |-> hourlyRate, mult |-> mult,
   amount |-> amount]

\* A details line that interpolates nothing (or only a count).
PlainLine(tag, count) ==
  [tag |-> tag, hours |-> Num(count), rate |-> Zero, mult |-> Zero,
   amount |-> Zero]

Detail(pay, details, dailyBreakdown, hasBreakdown) ==
  [pay |-> pay, details |-> details, dailyBreakdown |-> dailyBreakdown,
   hasBreakdown |-> hasBreakdown]

(***************************************************************************)
(* SalaryCalculatorService: pure methods, the rate table passed as rates   *)
(***************************************************************************)
\* Mutant: ceiling mode takes the whole part and adds one.
calculateHourlyRate_FloorPlusOne(salary, useCeiling) ==
  LET hourlyRate == NumDiv(salary, Num(240))
  IN  IF useCeiling
        THEN (IF IsFinite(hourlyRate)
                THEN Num((hourlyRate.n \div hourlyRate.d) + 1) ELSE hourlyRate)
        ELSE RoundCents(hourlyRate)

\* Mutant: ceiling mode drops the fraction instead of rounding it up.
calculateHourlyRate_Truncates(salary, useCeiling) ==
  LET hourlyRate == NumDiv(salary, Num(240))
  IN  IF useCeiling THEN NumNeg(MathCeil(NumNeg(hourlyRate)))
      ELSE RoundCents(hourlyRate)

calculateHourlyRate(salary, useCeiling) ==
  LET hourlyRate == NumDiv(salary, Num(240))
  IN  IF useCeiling THEN MathCeil(hourlyRate) ELSE RoundCents(hourlyRate)

calculateDailyWage(salary, useCeiling) ==
  LET dailyWage == NumDiv(salary, Num(30))
  IN  IF useCeiling THEN MathCeil(dailyWage) ELSE RoundCents(dailyWage)

InvalidHoursMessage(token) == <<"invalid hours: ">> \o token

Parsed(tag, total, detail, message) ==
  [tag |-> tag, total |-> total, detail |-> detail, message |-> message]

RECURSIVE FirstNaN_Last(_)
\* Mutant: the index of the last NaN of a sequence of numbers, 0 when none.
FirstNaN_Last(s) ==
  IF s = <<>> THEN 0
  ELSE IF IsNaN(s[Len(s)]) THEN Len(s)
  ELSE FirstNaN_Last(SubSeq(s, 1, Len(s) - 1))

RECURSIVE FirstNaN(_)
\* The index of the first NaN of a sequence of numbers, 0 when none.
FirstNaN(s) ==
  IF s = <<>> THEN 0
  ELSE LET r == FirstNaN(SubSeq(s, 1, Len(s) - 1))
       IN  IF r # 0 THEN r ELSE IF IsNaN(s[Len(s)]) THEN Len(s) ELSE 0

\* tag "null": returns null; "ok": returns {total, detail};
\* "throw": throws Error(message).
parseHoursInput(input) ==
  IF Trim(input) = <<>> THEN Parsed("null", Zero, <<>>, <<>>)
  ELSE IF Includes(input, ",") THEN
    LET parts == Split(input, ",")
        hoursList == [i \in 1..Len(parts) |-> parseFloat(Trim(parts[i]))]
        bad == FirstNaN(hoursList)
    IN  IF bad # 0
          THEN Parsed("throw", Zero, <<>>,
                      InvalidHoursMessage(Trim(parts[bad])))
          ELSE Parsed("ok", SumSeq(hoursList), hoursList, <<>>)
  ELSE
    LET hours == parseFloat(Trim(input))
    IN  IF IsNaN(hours)
          THEN Parsed("throw", Zero, <<>>, InvalidHoursMessage(Trim(input)))
          ELSE Parsed("ok", hours, <<hours>>, <<>>)


\* What a bracket function has when it reaches its return statement: the
\* unrounded totalPay and the details lines.
Priced(totalPay, details) == [totalPay |-> totalPay, details |-> details]

\* return { pay: Math.round(totalPay * 100) / 100, details }
ReturnPriced(priced) ==
  Detail(RoundCents(priced.totalPay), priced.details, <<>>, FALSE)

\* hours * hourlyRate * multiplier
Amount(hours, hourlyRate, multiplier) ==
  NumMul(NumMul(hours, hourlyRate), multiplier)

\* Mutant: the emergency multiplier is taken from DEFAULT_RATES, not from
\* the table the service holds.
WeekdayEmergencyBranch_DefaultTable(rates, hours, hourlyRate) ==
  Priced(Amount(hours, hourlyRate, DEFAULT_RATES.weekdayEmergency),
         <<Line("emergency", hours, hourlyRate, DEFAULT_RATES.weekdayEmergency,
                ToFixed(Amount(hours, hourlyRate,
                               DEFAULT_RATES.weekdayEmergency), 2))>>)

\* The isEmergency branch of calculateWeekdayOvertime.
WeekdayEmergencyBranch(rates, hours, hourlyRate) ==
  Priced(Amount(hours, hourlyRate, rates.weekdayEmergency),
         <<Line("emergency", hours, hourlyRate, rates.weekdayEmergency,
                ToFixed(Amount(hours, hourlyRate, rates.weekdayEmergency), 2))>>)

\* Mutant: every sub-bracket subtotal is rounded to the cent before the sum.
WeekdayTierBranch_RoundedSubtotals(rates, hours, hourlyRate) ==
  IF NumLeq(hours, Num(2)) THEN
    Priced(Amount(hours, hourlyRate, rates.weekdayFirst2hr),
           <<Line("first", hours, hourlyRate, ToFixed(rates.weekdayFirst2hr, 3),
                  ToFixed(Amount(hours, hourlyRate, rates.weekdayFirst2hr), 2))>>)
  ELSE IF NumLeq(hours, Num(4)) THEN
    LET first2hrPay == RoundCents(Amount(Num(2), hourlyRate, rates.weekdayFirst2hr))
        remainingHours == NumSub(hours, Num(2))
        remainingPay == RoundCents(Amount(remainingHours, hourlyRate, rates.weekdayNext2hr))
    IN  Priced(NumAdd(first2hrPay, remainingPay),
               <<Line("first2", Num(2), hourlyRate,
                      ToFixed(rates.weekdayFirst2hr, 3), ToFixed(first2hrPay, 2)),
                 Line("next", remainingHours, hourlyRate,
                      ToFixed(rates.weekdayNext2hr, 3), ToFixed(remainingPay, 2))>>)
  ELSE
    LET first2hrPay == RoundCents(Amount(Num(2), hourlyRate, rates.weekdayFirst2hr))
        next2hrPay == RoundCents(Amount(Num(2), hourlyRate, rates.weekdayNext2hr))
        over4hr == NumSub(hours, Num(4))
        over4hrPay == RoundCents(Amount(over4hr, hourlyRate, rates.weekdayNext2hr))
    IN  Priced(NumAdd(NumAdd(first2hrPay, next2hrPay), over4hrPay),
               <<Line("first2", Num(2), hourlyRate,
                      ToFixed(rates.weekdayFirst2hr, 3), ToFixed(first2hrPay, 2)),
                 Line("next2", Num(2), hourlyRate,
                      ToFixed(rates.weekdayNext2hr, 3), ToFixed(next2hrPay, 2)),
                 Line("over4", over4hr, hourlyRate,
                      ToFixed(rates.weekdayNext2hr, 3), ToFixed(over4hrPay, 2))>>)

\* The else branch of calculateWeekdayOvertime: the tiers at 2 and 4 hours.
WeekdayTierBranch(rates, hours, hourlyRate) ==
  IF NumLeq(hours, Num(2)) THEN
    Priced(Amount(hours, hourlyRate, rates.weekdayFirst2hr),
           <<Line("first", hours, hourlyRate, ToFixed(rates.weekdayFirst2hr, 3),
                  ToFixed(Amount(hours, hourlyRate, rates.weekdayFirst2hr), 2))>>)
  ELSE IF NumLeq(hours, Num(4)) THEN
    LET first2hrPay == Amount(Num(2), hourlyRate, rates.weekdayFirst2hr)
        remainingHours == NumSub(hours, Num(2))
        remainingPay == Amount(remainingHours, hourlyRate, rates.weekdayNext2hr)
    IN  Priced(NumAdd(first2hrPay, remainingPay),
               <<Line("first2", Num(2), hourlyRate,
                      ToFixed(rates.weekdayFirst2hr, 3), ToFixed(first2hrPay, 2)),
                 Line("next", remainingHours, hourlyRate,
                      ToFixed(rates.weekdayNext2hr, 3), ToFixed(remainingPay, 2))>>)
  ELSE
    LET first2hrPay == Amount(Num(2), hourlyRate, rates.weekdayFirst2hr)
        next2hrPay == Amount(Num(2), hourlyRate, rates.weekdayNext2hr)
        over4hr == NumSub(hours, Num(4))
        over4hrPay == Amount(over4hr, hourlyRate, rates.weekdayNext2hr)
    IN  Priced(NumAdd(NumAdd(first2hrPay, next2hrPay), over4hrPay),
               <<Line("first2", Num(2), hourlyRate,
                      ToFixed(rates.weekdayFirst2hr, 3), ToFixed(first2hrPay, 2)),
                 Line("next2", Num(2), hourlyRate,
                      ToFixed(rates.weekdayNext2hr, 3), ToFixed(next2hrPay, 2)),
                 Line("over4", over4hr, hourlyRate,
                      ToFixed(rates.weekdayNext2hr, 3), ToFixed(over4hrPay, 2))>>)

\* Mutant: the hours beyond the legal ceiling of 12 are not paid.
calculateWeekdayOvertime_CappedAt12(rates, hours, hourlyRate, isEmergency) ==
  IF NumLeq(hours, Zero)
    THEN Detail(Zero, <<PlainLine("noOvertime", 0)>>, <<>>, FALSE)
  ELSE IF isEmergency
    THEN ReturnPriced(WeekdayEmergencyBranch(rates,
           IF NumGt(hours, Num(12)) THEN Num(12) ELSE hours, hourlyRate))
    ELSE ReturnPriced(WeekdayTierBranch(rates,
           IF NumGt(hours, Num(12)) THEN Num(12) ELSE hours, hourlyRate))

\* Mutant: under the emergency flag the first two hours stay in their tier
\* and only the hours after them are paid the emergency multiplier.
calculateWeekdayOvertime_EmergencyAfterTier(rates, hours, hourlyRate, isEmergency) ==
  IF NumLeq(hours, Zero)
    THEN Detail(Zero, <<PlainLine("noOvertime", 0)>>, <<>>, FALSE)
  ELSE IF isEmergency /\ NumGt(hours, Num(2))
    THEN ReturnPriced(
           Priced(NumAdd(Amount(Num(2), hourlyRate, rates.weekdayFirst2hr),
                         Amount(NumSub(hours, Num(2)), hourlyRate,
                                rates.weekdayEmergency)),
                  <<>>))
    ELSE ReturnPriced(WeekdayTierBranch(rates, hours, hourlyRate))

\* Mutant: the hours after the third are paid once more at the plain hourly
\* rate, a change of slope at 3 hours.
calculateWeekdayOvertime_SteeperAfter3(rates, hours, hourlyRate, isEmergency) ==
  IF NumLeq(hours, Zero)
    THEN Detail(Zero, <<PlainLine("noOvertime", 0)>>, <<>>, FALSE)
  ELSE IF isEmergency
    THEN ReturnPriced(WeekdayEmergencyBranch(rates, hours, hourlyRate))
  ELSE IF NumGt(hours, Num(3))
    THEN ReturnPriced(
           Priced(NumAdd(WeekdayTierBranch(rates, hours, hourlyRate).totalPay,
                         Amount(NumSub(hours, Num(3)), hourlyRate, Num(1))),
                  WeekdayTierBranch(rates, hours, hourlyRate).details))
    ELSE ReturnPriced(WeekdayTierBranch(rates, hours, hourlyRate))

calculateWeekdayOvertime(rates, hours, hourlyRate, isEmergency) ==
  IF NumLeq(hours, Zero)
    THEN Detail(Zero, <<PlainLine("noOvertime", 0)>>, <<>>, FALSE)
  ELSE IF isEmergency
    THEN ReturnPriced(WeekdayEmergencyBranch(rates, hours, hourlyRate))
    ELSE ReturnPriced(WeekdayTierBranch(rates, hours, hourlyRate))

\* Mutant: the hours after the eighth are paid the 2-to-8-hour multiplier.
RestDayTierBranch_Over8AtMidRate(rates, hours, hourlyRate) ==
  IF NumLeq(hours, Num(2)) THEN
    Priced(Amount(hours, hourlyRate, rates.restDayFirst2hr), <<>>)
  ELSE
    Priced(NumAdd(Amount(Num(2), hourlyRate, rates.restDayFirst2hr),
                  Amount(NumSub(hours, Num(2)), hourlyRate,
                         rates.restDay2to8hr)),
           <<>>)

\* The tiers of calculateRestDayOvertime, at 2 and 8 hours.
RestDayTierBranch(rates, hours, hourlyRate) ==
  IF NumLeq(hours, Num(2)) THEN
    Priced(Amount(hours, hourlyRate, rates.restDayFirst2hr),
           <<Line("first", hours, hourlyRate, ToFixed(rates.restDayFirst2hr, 3),
                  ToFixed(Amount(hours, hourlyRate, rates.restDayFirst2hr), 2))>>)
  ELSE IF NumLeq(hours, Num(8)) THEN
    LET first2hrPay == Amount(Num(2), hourlyRate, rates.restDayFirst2hr)
        remainingHours == NumSub(hours, Num(2))
        remainingPay == Amount(remainingHours, hourlyRate, rates.restDay2to8hr)
    IN  Priced(NumAdd(first2hrPay, remainingPay),
               <<Line("first2", Num(2), hourlyRate,
                      ToFixed(rates.restDayFirst2hr, 3), ToFixed(first2hrPay, 2)),
                 Line("2to8", remainingHours, hourlyRate,
                      ToFixed(rates.restDay2to8hr, 3), ToFixed(remainingPay, 2))>>)
  ELSE
    LET first2hrPay == Amount(Num(2), hourlyRate, rates.restDayFirst2hr)
        mid6hrPay == Amount(Num(6), hourlyRate, rates.restDay2to8hr)
        over8hr == NumSub(hours, Num(8))
        over8hrPay == Amount(over8hr, hourlyRate, rates.restDayOver8hr)
    IN  Priced(NumAdd(NumAdd(first2hrPay, mid6hrPay), over8hrPay),
               <<Line("first2", Num(2), hourlyRate,
                      ToFixed(rates.restDayFirst2hr, 3), ToFixed(first2hrPay, 2)),
                 Line("mid6", Num(6), hourlyRate,
                      ToFixed(rates.restDay2to8hr, 3), ToFixed(mid6hrPay, 2)),
                 Line("over8", over8hr, hourlyRate,
                      ToFixed(rates.restDayOver8hr, 3), ToFixed(over8hrPay, 2))>>)

\* Mutant: hours <= 0 are priced like any other.
calculateRestDayOvertime_NoGuard(rates, hours, hourlyRate) ==
  ReturnPriced(RestDayTierBranch(rates, hours, hourlyRate))

calculateRestDayOvertime(rates, hours, hourlyRate) ==
  IF NumLeq(hours, Zero)
    THEN Detail(Zero, <<PlainLine("noAttendance", 0)>>, <<>>, FALSE)
    ELSE ReturnPriced(RestDayTierBranch(rates, hours, hourlyRate))

\* Mutant: every holiday type is paid holidayRate.
HolidayMultiplier_IgnoresType(rates, holidayType) == rates.holidayRate

\* The multiplier calculateHolidayPay selects for a holiday type.
HolidayMultiplier(rates, holidayType) ==
  IF holidayType = "regular" THEN rates.regularDayOffRate ELSE rates.holidayRate

\* The priced part of calculateHolidayPay.
HolidayBranch(rate, hours, hourlyRate, holidayType) ==
  Priced(Amount(hours, hourlyRate, rate),
         <<Line(holidayType, hours, hourlyRate, rate,
                ToFixed(Amount(hours, hourlyRate, rate), 2))>>)

\* Mutant: calculateHolidayPay without its guard on hours <= 0.
calculateHolidayPay_NoGuard(rates, hours, hourlyRate, holidayType) ==
  ReturnPriced(HolidayBranch(HolidayMultiplier(rates, holidayType),
                             hours, hourlyRate, holidayType))

calculateHolidayPay(rates, hours, hourlyRate, holidayType) ==
  IF NumLeq(hours, Zero)
    THEN Detail(Zero, <<PlainLine("noAttendance", 0)>>, <<>>, FALSE)
    ELSE ReturnPriced(HolidayBranch(HolidayMultiplier(rates, holidayType),
                                    hours, hourlyRate, holidayType))

DailyWorkDetail(day, hours, pay) == [day |-> day, hours |-> hours, pay |-> pay]

RECURSIVE SumPay(_)
\* dailyResults.reduce((sum, day) => sum + day.pay, 0)
SumPay(rows) ==
  IF rows = <<>> THEN Zero
  ELSE NumAdd(SumPay(SubSeq(rows, 1, Len(rows) - 1)), rows[Len(rows)].pay)

\* A bracket function with its trailing arguments bound, as
\* calculateComprehensive hands it to processDailyCalculation.
Method(fn, holidayType, isEmergency) ==
  [fn |-> fn, holidayType |-> holidayType, isEmergency |-> isEmergency]

\* calculationMethod(hours, hourlyRate, ...additionalArgs)
InvokeMethod(rates, calculationMethod, hours, hourlyRate) ==
  CASE calculationMethod.fn = "calculateWeekdayOvertime" ->
         calculateWeekdayOvertime(rates, hours, hourlyRate,
                                  calculationMethod.isEmergency)
    [] calculationMethod.fn = "calculateRestDayOvertime" ->
         calculateRestDayOvertime(rates, hours, hourlyRate)
    [] calculationMethod.fn = "calculateHolidayPay" ->
         calculateHolidayPay(rates, hours, hourlyRate,
                             calculationMethod.holidayType)

\* The detail returned in multi-day mode, given the filtered rows.
MultiDayDetail(days, dailyResults) ==
  Detail(SumPay(dailyResults), <<PlainLine("days", days)>>, dailyResults, TRUE)

\* Mutant: the rows of the days without hours are kept.
WorkedDays_KeepsAll(rows) == rows

\* .filter(item => item.hours > 0)
WorkedDays(rows) == SelectSeq(rows, LAMBDA item : NumGt(item.hours, Zero))

\* Mutant: the per-day branch is taken for a single day as well.
processDailyCalculation_AlwaysPerDay(rates, parsedData, hourlyRate, calculationMethod) ==
  MultiDayDetail(Len(parsedData.detail),
    WorkedDays(
      [i \in 1..Len(parsedData.detail) |->
         IF NumGt(parsedData.detail[i], Zero)
           THEN DailyWorkDetail(i, parsedData.detail[i],
                  InvokeMethod(rates, calculationMethod,
                               parsedData.detail[i], hourlyRate).pay)
           ELSE DailyWorkDetail(i, Zero, Zero)]))

\* Mutant: the bracket function is applied once, to the total of the days.
processDailyCalculation_OnTotal(rates, parsedData, hourlyRate, calculationMethod) ==
  InvokeMethod(rates, calculationMethod, parsedData.total, hourlyRate)

processDailyCalculation(rates, parsedData, hourlyRate, calculationMethod) ==
  IF Len(parsedData.detail) > 1 THEN
    MultiDayDetail(Len(parsedData.detail),
      WorkedDays(
        [i \in 1..Len(parsedData.detail) |->
           IF NumGt(parsedData.detail[i], Zero)
             THEN DailyWorkDetail(i, parsedData.detail[i],
                    InvokeMethod(rates, calculationMethod,
                                 parsedData.detail[i], hourlyRate).pay)
             ELSE DailyWorkDetail(i, Zero, Zero)]))
  ELSE InvokeMethod(rates, calculationMethod, parsedData.total, hourlyRate)


\* The four raw hour strings and the emergency flag.
WorkDataInput(weekday, restDay, holiday, regularDayOff, isEmergency) ==
  [weekdayOvertime |-> weekday, restDayWork |-> restDay,
   holidayWork |-> holiday, regularDayOffWork |-> regularDayOff,
   isEmergency |-> isEmergency]

InvalidSalaryMessage == <<"invalid salary">>
DefaultFormatMessage == <<"input format error">>
\* The text appended by the catch block: the two examples of valid input.
FormatHint == <<"\n\ncheck the input format:\n* single: 3\n* multi-day: 9,9,9,9">>

\* The outcome of a call: a returned value or a thrown Error(message).
Returned(value) == [threw |-> FALSE, message |-> <<>>, value |-> value]
Threw(message) == [threw |-> TRUE, message |-> message, value |-> <<>>]

\* The categories whose raw string is non-empty after trimming, in the order
\* the code visits them.
UsedCategories(workData) ==
  SelectSeq(Categories, LAMBDA c : Trim(workData[c]) # <<>>)

\* The bracket function, with its bound arguments, that
\* calculateComprehensive hands to processDailyCalculation for a category.
CategoryMethod(c, isEmergency) ==
  CASE c = "weekdayOvertime" ->
         Method("calculateWeekdayOvertime", "", isEmergency)
    [] c = "restDayWork" -> Method("calculateRestDayOvertime", "", FALSE)
    [] c = "holidayWork" -> Method("calculateHolidayPay", "holiday", FALSE)
    [] c = "regularDayOffWork" ->
         Method("calculateHolidayPay", "regular", FALSE)

RECURSIVE FirstThrow(_, _)
\* The first category, in visiting order, whose parse throws; "" when none.
FirstThrow(used, parsedOf) ==
  IF used = <<>> THEN ""
  ELSE IF parsedOf[Head(used)].tag = "throw" THEN Head(used)
  ELSE FirstThrow(Tail(used), parsedOf)

\* Mutant: only the last category's pay enters the total.
SumCategoryPay_LastOnly(used, calculations) ==
  IF used = <<>> THEN Zero ELSE calculations[used[Len(used)]].pay

RECURSIVE SumCategoryPay(_, _)
\* totalPay += result.calculations[c].pay, over the categories in order
SumCategoryPay(used, calculations) ==
  IF used = <<>> THEN Zero
  ELSE NumAdd(SumCategoryPay(SubSeq(used, 1, Len(used) - 1), calculations),
              calculations[used[Len(used)]].pay)

ComprehensiveResult(hourlyRate, dailyWage, calculations, totalPay) ==
  [hourlyRate |-> hourlyRate, dailyWage |-> dailyWage,
   calculations |-> calculations, totalPay |-> totalPay]

\* result.totalPay = Math.round(totalPay * 100) / 100; return result
FinishResult(hourlyRate, dailyWage, used, calculations) ==
  ComprehensiveResult(hourlyRate, dailyWage, calculations,
                      RoundCents(SumCategoryPay(used, calculations)))

SeqRange(s) == {s[i] : i \in 1..Len(s)}

\* Mutant: a category whose parse throws is left out and the others are
\* returned.
ComprehensiveBody_SkipsMalformed(rates, workData, hourlyRate, dailyWage, used, parsedOf) ==
  Returned(FinishResult(hourlyRate, dailyWage,
             SelectSeq(used, LAMBDA c : parsedOf[c].tag # "throw"),
             [c \in {u \in SeqRange(used) : parsedOf[u].tag # "throw"} |->
                processDailyCalculation(rates, parsedOf[c], hourlyRate,
                  CategoryMethod(c, workData.isEmergency))]))

\* The try block, the wage base computed: every used category is parsed and
\* priced in order; the first parse that throws ends the call in the catch
\* block, which throws the message with the format hint appended.
ComprehensiveBody(rates, workData, hourlyRate, dailyWage, used, parsedOf) ==
  IF FirstThrow(used, parsedOf) # ""
    THEN Threw(parsedOf[FirstThrow(used, parsedOf)].message \o FormatHint)
    ELSE Returned(FinishResult(hourlyRate, dailyWage, used,
           [c \in SeqRange(used) |->
              processDailyCalculation(rates, parsedOf[c], hourlyRate,
                CategoryMethod(c, workData.isEmergency))]))

\* Mutant: the hour strings are parsed before the salary is looked at.
calculateComprehensive_ParseFirst(rates, monthlySalary, workData, useCeilingCalculation) ==
  IF FirstThrow(UsedCategories(workData),
                [c \in SeqRange(UsedCategories(workData)) |->
                   parseHoursInput(workData[c])]) # ""
     \/ ~(~Truthy(monthlySalary) \/ NumLeq(monthlySalary, Zero))
    THEN ComprehensiveBody(rates, workData,
           calculateHourlyRate(monthlySalary, useCeilingCalculation),
           calculateDailyWage(monthlySalary, useCeilingCalculation),
           UsedCategories(workData),
           [c \in SeqRange(UsedCategories(workData)) |->
              parseHoursInput(workData[c])])
    ELSE Threw(InvalidSalaryMessage)

calculateComprehensive(rates, monthlySalary, workData, useCeilingCalculation) ==
  IF ~Truthy(monthlySalary) \/ NumLeq(monthlySalary, Zero)
    THEN Threw(InvalidSalaryMessage)
    ELSE ComprehensiveBody(rates, workData,
           calculateHourlyRate(monthlySalary, useCeilingCalculation),
           calculateDailyWage(monthlySalary, useCeilingCalculation),
           UsedCategories(workData),
           [c \in SeqRange(UsedCategories(workData)) |->
              parseHoursInput(workData[c])])


(***************************************************************************)
(* validateWorkHours                                                       *)
(***************************************************************************)
\* One warning: the fixed text (by tag: "recommended", "legal", "format"),
\* the category it names and the numbers interpolated into it.
Warning(tag, type, maxDaily, limit) ==
  [tag |-> tag, type |-> type, maxDaily |-> maxDaily, limit |-> limit]

\* The two locals of validateWorkHours the checkHours closure writes.
Validation(warnings, isValid) == [warnings |-> warnings, isValid |-> isValid]

\* warnings.push(w); isValid = false
PushWarning(st, w) == Validation(Append(st.warnings, w), FALSE)

\* The larger of two numbers, NaN if either is.
Max2(a, b) ==
  IF IsNaN(a) \/ IsNaN(b) THEN NaN ELSE IF NumGt(b, a) THEN b ELSE a

RECURSIVE MathMax(_)
\* Math.max(...s)
MathMax(s) == IF s = <<>> THEN NegInf ELSE Max2(Head(s), MathMax(Tail(s)))

\* if (maxRecommended && maxDaily > maxRecommended) { ... }
CheckRecommended(st, type, maxDaily, maxRecommended) ==
  IF Truthy(maxRecommended) /\ NumGt(maxDaily, maxRecommended)
    THEN PushWarning(st, Warning("recommended", type, maxDaily, maxRecommended))
    ELSE st

\* Mutant: twelve hours already breach the legal ceiling.
CheckLegal_AtCeiling(st, type, maxDaily) ==
  IF NumLeq(Num(12), maxDaily)
    THEN PushWarning(st, Warning("legal", type, maxDaily, Num(12)))
    ELSE st

\* if (maxDaily > 12) { ... }
CheckLegal(st, type, maxDaily) ==
  IF NumGt(maxDaily, Num(12))
    THEN PushWarning(st, Warning("legal", type, maxDaily, Num(12)))
    ELSE st

\* The two ceiling checks, maxDaily computed.
CheckCeilings(st, type, maxDaily, maxRecommended) ==
  CheckLegal(CheckRecommended(st, type, maxDaily, maxRecommended),
             type, maxDaily)

\* The try block of checkHours, parseHoursInput(input) evaluated: a throw
\* ends in the catch block.
CheckParsed(st, parsed, type, maxRecommended) ==
  IF parsed.tag = "throw"
    THEN PushWarning(st, Warning("format", type, Zero, Zero))
  ELSE IF parsed.tag = "null" THEN st
  ELSE CheckCeilings(st, type, MathMax(parsed.detail), maxRecommended)

\* Mutant: once a format warning has been pushed, no further category is
\* checked.
checkHours_StopsAfterFormatError(st, input, type, maxRecommended) ==
  IF \E k \in 1..Len(st.warnings) : st.warnings[k].tag = "format" THEN st
  ELSE IF Trim(input) = <<>> THEN st
  ELSE CheckParsed(st, parseHoursInput(input), type, maxRecommended)

\* The closure checkHours, the two locals it writes passed and returned.
checkHours(st, input, type, maxRecommended) ==
  IF Trim(input) = <<>> THEN st
  ELSE CheckParsed(st, parseHoursInput(input), type, maxRecommended)

validateWorkHours(workData) ==
  checkHours(
    checkHours(
      checkHours(
        checkHours(Validation(<<>>, TRUE),
                   workData.weekdayOvertime, "weekdayOvertime", Num(4)),
        workData.restDayWork, "restDayWork", Num(8)),
      workData.holidayWork, "holidayWork", Num(8)),
    workData.regularDayOffWork, "regularDayOffWork", Num(8))

\* quickCalculate.hourlyRate / dailyWage: a default calculator per call
quickHourlyRate(monthlySalary, useCeiling) ==
  calculateHourlyRate(monthlySalary, useCeiling)

quickDailyWage(monthlySalary, useCeiling) ==
  calculateDailyWage(monthlySalary, useCeiling)


(***************************************************************************)
(* SalaryCalculator component: its inline calculation. The component does  *)
(* not use the service; its calculateHourlyRate, calculateDailyWage,       *)
(* parseHoursInput, calculateWeekdayOvertime and calculateRestDayOvertime  *)
(* are, line for line, the text of the service's methods with the          *)
(* component's own constant rate table in place of this.rates.             *)
(***************************************************************************)
\* Mutant: the component's table pays holidays three times the hourly rate.
ComponentRates_HolidayTriple ==
  [weekdayFirst2hr |-> Fin(4, 3),
   weekdayNext2hr |-> Fin(5, 3),
   weekdayEmergency |-> Num(2),
   restDayFirst2hr |-> Fin(4, 3),
   restDay2to8hr |-> Fin(5, 3),
   restDayOver8hr |-> Fin(8, 3),
   holidayRate |-> Num(3),
   regularDayOffRate |-> Num(2)]

ComponentRates ==
  [weekdayFirst2hr |-> Fin(4, 3),
   weekdayNext2hr |-> Fin(5, 3),
   weekdayEmergency |-> Num(2),
   restDayFirst2hr |-> Fin(4, 3),
   restDay2to8hr |-> Fin(5, 3),
   restDayOver8hr |-> Fin(8, 3),
   holidayRate |-> Num(2),
   regularDayOffRate |-> Num(2)]

compCalculateHourlyRate(salary, useCeiling) ==
  LET hourlyRate == NumDiv(salary, Num(240))
  IN  IF useCeiling THEN MathCeil(hourlyRate) ELSE RoundCents(hourlyRate)

compCalculateDailyWage(salary, useCeiling) ==
  LET dailyWage == NumDiv(salary, Num(30))
  IN  IF useCeiling THEN MathCeil(dailyWage) ELSE RoundCents(dailyWage)

compParseHoursInput(input) == parseHoursInput(input)

compCalculateWeekdayOvertime(hours, hourlyRate, isEmergency) ==
  calculateWeekdayOvertime(ComponentRates, hours, hourlyRate, isEmergency)

compCalculateRestDayOvertime(hours, hourlyRate) ==
  calculateRestDayOvertime(ComponentRates, hours, hourlyRate)

\* The component prices both holiday types with rates.holidayRate; the type
\* only labels the details line.
compCalculateHolidayPay(hours, hourlyRate, holidayType) ==
  IF NumLeq(hours, Zero)
    THEN Detail(Zero, <<PlainLine("noAttendance", 0)>>, <<>>, FALSE)
    ELSE ReturnPriced(HolidayBranch(ComponentRates.holidayRate, hours,
                                    hourlyRate, holidayType))

\* The bracket function the component calls in a category's block.
compInvokeMethod(calculationMethod, hours, hourlyRate) ==
  CASE calculationMethod.fn = "calculateWeekdayOvertime" ->
         compCalculateWeekdayOvertime(hours, hourlyRate,
                                      calculationMethod.isEmergency)
    [] calculationMethod.fn = "calculateRestDayOvertime" ->
         compCalculateRestDayOvertime(hours, hourlyRate)
    [] calculationMethod.fn = "calculateHolidayPay" ->
         compCalculateHolidayPay(hours, hourlyRate,
                                 calculationMethod.holidayType)

\* The block the component repeats for each category: per-day calculation
\* when more than one day was entered, else the single calculation with its
\* pay and details copied.
\* { pay: result.pay, details: result.details }
compSingleDetail(result) == Detail(result.pay, result.details, <<>>, FALSE)

compDailyCalculation(parsed, hourlyRate, calculationMethod) ==
  IF Len(parsed.detail) > 1 THEN
    MultiDayDetail(Len(parsed.detail),
      WorkedDays(
        [i \in 1..Len(parsed.detail) |->
           IF NumGt(parsed.detail[i], Zero)
             THEN DailyWorkDetail(i, parsed.detail[i],
                    compInvokeMethod(calculationMethod, parsed.detail[i],
                                     hourlyRate).pay)
             ELSE DailyWorkDetail(i, Zero, Zero)]))
  ELSE
    compSingleDetail(compInvokeMethod(calculationMethod, parsed.total,
                                      hourlyRate))

\* results === null
NoResults == [hourlyRate |-> NaN, dailyWage |-> NaN, calculations |-> <<>>,
              totalPay |-> NaN, isNull |-> TRUE]

\* The effect of one click on "calculate": the new value of the results
\* state, the alert shown (if any) and whether onCalculationComplete ran.
ComponentOutcome(results, alerted, alert, completed) ==
  [results |-> results, alerted |-> alerted, alert |-> alert,
   completed |-> completed]

\* The try block of the component's handler, the wage base computed.
compBody(workData, hourlyRate, dailyWage, used, parsedOf, results) ==
  IF FirstThrow(used, parsedOf) # ""
    THEN ComponentOutcome(results, TRUE,
           parsedOf[FirstThrow(used, parsedOf)].message \o FormatHint, FALSE)
    ELSE ComponentOutcome(
           FinishResult(hourlyRate, dailyWage, used,
             [c \in SeqRange(used) |->
                compDailyCalculation(parsedOf[c], hourlyRate,
                  CategoryMethod(c, workData.isEmergency))]),
           FALSE, <<>>, TRUE)

\* const salary = parseFloat(monthlySalary), then the handler proper
compWithSalary(salary, workData, useCeiling, results) ==
  IF ~Truthy(salary) \/ NumLeq(salary, Zero)
    THEN ComponentOutcome(results, TRUE, InvalidSalaryMessage, FALSE)
    ELSE compBody(workData,
           compCalculateHourlyRate(salary, useCeiling),
           compCalculateDailyWage(salary, useCeiling),
           UsedCategories(workData),
           [c \in SeqRange(UsedCategories(workData)) |->
              compParseHoursInput(workData[c])],
           results)

compCalculateComprehensive(monthlySalary, workData, useCeiling, results) ==
  compWithSalary(parseFloat(monthlySalary), workData, useCeiling, results)

(***************************************************************************)
(* Service instances and the objects they share with the caller. An object *)
(* that only the instance refers to (the copy updateRates makes, the table *)
(* createCustomCalculator builds) is held by value; an object the caller   *)
(* also refers to is held by name: DEFAULT_RATES itself, or one of the     *)
(* caller's objects in the heap.                                           *)
(***************************************************************************)
\* getCurrentRates(): return { ...this.rates }
getCurrentRates(rates) == [k \in DOMAIN rates |-> rates[k]]

\* What this.rates is: a reference (to) to a shared object, or a private
\* object (own). configured is the table that was handed to the constructor
\* or to updateRates, as it was at that moment.
Service(to, own, configured) ==
  [to |-> to, own |-> own, configured |-> configured]

\* constructor(rates = DEFAULT_RATES): this.rates = rates, no argument given
NewDefaultService == Service("DEFAULT_RATES", DEFAULT_RATES, DEFAULT_RATES)

\* constructor(rates): this.rates = rates, rates being the caller's object o
NewService(objects, o) == Service(o, DEFAULT_RATES, objects[o])

\* updateRates(newRates): this.rates = { ...newRates }
ServiceUpdateRates(newRates) == Service("own", newRates, newRates)

\* const rates = { ...DEFAULT_RATES, ...customRates }
MergeRates(customRates) ==
  [k \in RateKeys |->
     IF k \in DOMAIN customRates THEN customRates[k] ELSE DEFAULT_RATES[k]]

\* createCustomCalculator(customRates)
createCustomCalculator(customRates) ==
  Service("own", MergeRates(customRates), MergeRates(customRates))

\* The table this.rates denotes when a method of the instance reads it.
ThisRates(objects, service) ==
  CASE service.to = "own" -> service.own
    [] service.to = "DEFAULT_RATES" -> DEFAULT_RATES
    [] OTHER -> objects[service.to]

(***************************************************************************)
(* useRateStore (src/unnamed/part_000): the settings store                 *)
(***************************************************************************)
StoreDefaultRates ==
  [weekdayFirst2hr |-> Fin(4, 3),
   weekdayNext2hr |-> Fin(5, 3),
   weekdayEmergency |-> Num(2),
   restDayFirst2hr |-> Fin(4, 3),
   restDay2to8hr |-> Fin(5, 3),
   restDayOver8hr |-> Fin(8, 3),
   holidayRate |-> Num(2),
   regularDayOffRate |-> Num(2)]

RatesState(customRates, useCeilingCalculation) ==
  [customRates |-> customRates,
   useCeilingCalculation |-> useCeilingCalculation]

\* customRates: DEFAULT_RATES, useCeilingCalculation: true
InitialRateStore == RatesState(StoreDefaultRates, TRUE)

\* Mutant: the table is replaced by one holding the given key only.
setCustomRates_DropsOthers(state, key, value) ==
  [state EXCEPT !.customRates = [k \in {key} |-> value]]

\* set((state) => ({ customRates: { ...state.customRates, [key]: value } }))
setCustomRates(state, key, value) ==
  [state EXCEPT !.customRates =
     [k \in DOMAIN state.customRates \cup {key} |->
        IF k = key THEN value ELSE state.customRates[k]]]

\* set({ useCeilingCalculation: value })
setUseCeilingCalculation(state, value) ==
  [state EXCEPT !.useCeilingCalculation = value]

\* set({ customRates: DEFAULT_RATES })
resetCustomRates(state) == [state EXCEPT !.customRates = StoreDefaultRates]

\* set({ customRates: DEFAULT_RATES, useCeilingCalculation: true })
resetAllSettings(state) ==
  [state EXCEPT !.customRates = StoreDefaultRates,
                !.useCeilingCalculation = TRUE]

(***************************************************************************)
(* SettingsForm (src/unnamed/part_003): the settings form                  *)
(***************************************************************************)
FormDefaultRates ==
  [weekdayFirst2hr |-> Fin(4, 3),
   weekdayNext2hr |-> Fin(5, 3),
   weekdayEmergency |-> Num(2),
   restDayFirst2hr |-> Fin(4, 3),
   restDay2to8hr |-> Fin(5, 3),
   restDayOver8hr |-> Fin(8, 3),
   holidayRate |-> Num(2),
   regularDayOffRate |-> Num(2)]

SettingsFormData(customRates, useCeilingCalculation) ==
  [customRates |-> customRates,
   useCeilingCalculation |-> useCeilingCalculation]

\* What the form starts from when no initialData is given.
DefaultSettings == SettingsFormData(FormDefaultRates, TRUE)

\* Math.abs(rate - target) < 0.001
Near(rate, target) ==
  /\ NumLt(NumSub(rate, target), Fin(1, 1000))
  /\ NumLt(NumSub(target, rate), Fin(1, 1000))

getRateInputValue(rate) ==
  IF Near(rate, Fin(4, 3)) THEN <<"4", "/", "3">>
  ELSE IF Near(rate, Fin(5, 3)) THEN <<"5", "/", "3">>
  ELSE IF Near(rate, Fin(8, 3)) THEN <<"8", "/", "3">>
  ELSE IF Near(rate, Num(2)) THEN <<"2">>
  ELSE ToFixedText(rate, 3)

FormState(formData, inputValues) ==
  [formData |-> formData, inputValues |-> inputValues]

\* The two useState initialisers.
InitialSettingsForm(initialData) ==
  FormState(initialData,
    [k \in RateKeys |-> getRateInputValue(initialData.customRates[k])])

\* setInputValues(prev => ({ ...prev, [field]: value }))
handleInputChange(form, field, value) ==
  [form EXCEPT !.inputValues[field] = value]

\* The value the try block of handleInputBlur computes, or the error it
\* throws before the numValue > 0 test.
ParseFraction(parts) ==
  IF Len(parts) = 2 THEN
    IF /\ ~IsNaN(parseFloat(Trim(parts[1])))
       /\ ~IsNaN(parseFloat(Trim(parts[2])))
       /\ parseFloat(Trim(parts[2])) # Zero
      THEN Returned(NumDiv(parseFloat(Trim(parts[1])),
                           parseFloat(Trim(parts[2]))))
      ELSE Threw(<<"invalid fraction">>)
  ELSE Threw(<<"fraction must be a/b">>)

ParseRate(value) ==
  IF Includes(value, "/") THEN ParseFraction(Split(value, "/"))
  ELSE IF IsNaN(parseFloat(value)) THEN Threw(<<"invalid number">>)
  ELSE Returned(parseFloat(value))

\* The field's text is put back to the current valid value.
RestoreInput(form, field) ==
  [form EXCEPT !.inputValues[field] =
     getRateInputValue(form.formData.customRates[field])]

\* if (numValue > 0) { setFormData(...); setInputValues(...) } else throw;
\* every throw ends in the catch block, which restores the text.
AcceptRate(form, field, parsed) ==
  IF ~parsed.threw /\ NumGt(parsed.value, Zero)
    THEN [form EXCEPT !.formData.customRates[field] = parsed.value,
                      !.inputValues[field] = getRateInputValue(parsed.value)]
    ELSE RestoreInput(form, field)

handleInputBlur(form, field, value) ==
  IF Trim(value) = <<>> THEN RestoreInput(form, field)
  ELSE AcceptRate(form, field, ParseRate(value))

\* The rounding switch of the form.
ToggleFormCeiling(form) ==
  [form EXCEPT !.formData.useCeilingCalculation = ~@]

handleResetAll(form) ==
  FormState(SettingsFormData(FormDefaultRates, TRUE),
    [k \in RateKeys |-> getRateInputValue(FormDefaultRates[k])])

(***************************************************************************)
(* SalaryCalculator component: its state and what is on the screen         *)
(***************************************************************************)
EmptyWorkData == WorkDataInput(<<>>, <<>>, <<>>, <<>>, FALSE)

ComponentState(monthlySalary, workData, results, useCeilingCalculation) ==
  [monthlySalary |-> monthlySalary, workData |-> workData,
   results |-> results, useCeilingCalculation |-> useCeilingCalculation]

\* The four useState initialisers, defaultMonthlySalary shown as text.
InitialComponent(defaultMonthlySalary) ==
  ComponentState(defaultMonthlySalary, EmptyWorkData, NoResults, TRUE)

\* setWorkData(prev => ({ ...prev, [field]: value }))
compHandleInputChange(state, field, value) ==
  [state EXCEPT !.workData[field] = value]

\* setUseCeilingCalculation(!useCeilingCalculation)
compToggleCeiling(state) ==
  [state EXCEPT !.useCeilingCalculation = ~@]

\* The click on "calculate": the handler reads the state of the last render.
compClickCalculate(state) ==
  [state EXCEPT !.results =
     compCalculateComprehensive(state.monthlySalary, state.workData,
       state.useCeilingCalculation, state.results).results]

\* resetForm: the rounding mode is kept.
resetForm(state) ==
  ComponentState(<<>>, EmptyWorkData, NoResults, state.useCeilingCalculation)

(***************************************************************************)
(* Bounds and input sets                                                   *)
(***************************************************************************)
\* Longest generated raw string handed to parseHoursInput.
MaxLen == 3
\* Most days in a generated multi-day weekday string.
MaxDays == 3
\* Hours handed directly to the bracket functions: -2/4, -1/4, ..., MaxQuarters/4.
MaxQuarters == 40

Chars == {"3", "9", ".", ",", " ", "a", "-"}

RECURSIVE StringsUpTo(_)
\* Every string over Chars of length at most n.
StringsUpTo(n) ==
  IF n = 0 THEN {<<>>}
  ELSE LET shorter == StringsUpTo(n - 1)
       IN  shorter \cup {Append(t, c) : t \in shorter, c \in Chars}

SampleStrings ==
  {<<"3", ",", " ", "a">>,
   <<"9", ",", "9", ",", "9", ",", "9">>,
   <<" ", "4", ".", "5", " ">>,
   <<"3", "a", "b", "c">>,
   <<"1", "e", "2">>,
   <<"2", ",", "x", ",", "y">>,
   <<" ", " ", " ", " ">>,
   <<"0">>}

ParseInputs == StringsUpTo(MaxLen) \cup SampleStrings

DayTokens == {<<"9">>, <<"2", ".", "5">>}

RECURSIVE DayStrings(_)
\* The comma-joined strings of exactly n day tokens.
DayStrings(n) ==
  IF n = 1 THEN DayTokens
  ELSE {s \o <<",">> \o t : s \in DayStrings(n - 1), t \in DayTokens}

WeekdayInputs ==
  UNION {DayStrings(n) : n \in 1..MaxDays}
    \cup {<<>>, <<" ">>, <<"3">>, <<"3", ",", " ", "a">>,
          <<"9", ",", "9", ",", "9", ",", "9">>, <<"-", "1", ",", "3">>,
          <<"9", ",", "0", ",", "3">>, <<"0">>, <<"1", "3">>}

RestDayInputs ==
  {<<>>, <<"9">>, <<" ", "2", ",", "8", ".", "5">>, <<"-", "2">>}
HolidayInputs == {<<>>, <<"8">>, <<"8", ",", "a">>}
RegularDayOffInputs == {<<>>, <<"8">>, <<"4", ",", "-", "1", ",", "6">>}

WorkDataInputs ==
  {WorkDataInput(w, r, h, g, e) :
     w \in WeekdayInputs, r \in RestDayInputs, h \in HolidayInputs,
     g \in RegularDayOffInputs, e \in BOOLEAN}

\* Hour strings handed to validateWorkHours: below, at and above the
\* ceilings of 4, 8 and 12 hours, and strings that do not parse.
ValidateWeekdayInputs ==
  {<<>>, <<" ">>, <<"4">>, <<"4", ".", "5">>, <<"1", "2">>,
   <<"3", ",", "1", "3">>, <<"a">>, <<"-", "1">>}
ValidateRestDayInputs ==
  {<<>>, <<"8">>, <<"8", ".", "5">>, <<"1", "3">>, <<"9", ",", "x">>}
ValidateHolidayInputs ==
  {<<>>, <<"8">>, <<"1", "2">>, <<"9", ",", "2">>, <<"b">>}
ValidateRegularDayOffInputs ==
  {<<>>, <<"8">>, <<"2", ",", "1", "2", ".", "5">>, <<",">>}

ValidateInputs ==
  {WorkDataInput(w, r, h, g, FALSE) :
     w \in ValidateWeekdayInputs, r \in ValidateRestDayInputs,
     h \in ValidateHolidayInputs, g \in ValidateRegularDayOffInputs}

\* Salaries handed to the wage-base functions.
SalaryValues ==
  {NaN, PosInf, NegInf, Num(0), Num(-240), Num(240), Num(7200), Num(7250),
   Num(24000), Num(36050)}

\* Salaries handed to calculateComprehensive.
ComprehensiveSalaries ==
  {NaN, PosInf, Num(0), Num(-240), Num(1), Num(7250), Num(24000)}

\* What the component's salary field may hold.
SalaryTexts ==
  {<<>>, <<"0">>, <<"a">>, <<"-", "5">>, <<"7", "2", "5", "0">>,
   <<"2", "4", "0", "0", "0">>}

\* The results state once an earlier click has set it: salary 24000, three
\* weekday hours.
EarlierResults ==
  compCalculateComprehensive(<<"2", "4", "0", "0", "0">>,
    WorkDataInput(<<"3">>, <<>>, <<>>, <<>>, FALSE), TRUE, NoResults).results

\* What the results state may hold when the button is clicked.
PreviousResults == {NoResults, EarlierResults}

HoursValues == {Fin(q, 4) : q \in (-2)..MaxQuarters}

\* 0.01 is calculateHourlyRate(3, false).
HourlyRateValues == {Num(100), Num(31), Fin(3021, 100), Fin(1, 100)}

CustomRates ==
  [weekdayFirst2hr |-> Fin(3, 2),
   weekdayNext2hr |-> Num(2),
   weekdayEmergency |-> Num(3),
   restDayFirst2hr |-> Fin(5, 4),
   restDay2to8hr |-> Fin(7, 4),
   restDayOver8hr |-> Fin(5, 2),
   holidayRate |-> Fin(9, 4),
   regularDayOffRate |-> Fin(7, 3)]

RateTables == {DEFAULT_RATES, CustomRates}

\* The caller's objects: a table it built (arg) and the table the last
\* getCurrentRates() returned (got), at the start a copy of the defaults.
CallerObjects == [arg |-> CustomRates, got |-> getCurrentRates(DEFAULT_RATES)]

\* const a = new SalaryCalculatorService(), b = new SalaryCalculatorService()
TwoDefaultServices == [a |-> NewDefaultService, b |-> NewDefaultService]

\* A kept call and the table it was made under; at the start none is kept.
Kept(c, table) == [call |-> c, rates |-> table]

(***************************************************************************)
(* State                                                                   *)
(***************************************************************************)
VARIABLES
  rates,         \* the service instance's private rates field
  call,          \* the operation whose outcome the caller holds: its name,
                 \* its arguments and its outcome; Idle between operations
  earlier,       \* a call the caller has kept the outcome of, with the
                 \* rate table the service held when it was made
  services,      \* two service instances: what this.rates refers to
  heap,          \* the rate-table objects the caller holds a reference to
  rateStore,     \* the state of useRateStore
  settingsForm,  \* the state of SettingsForm: formData and inputValues
  component      \* the state of SalaryCalculator: monthlySalary, workData,
                 \* results and useCeilingCalculation

vars ==
  <<rates, call, earlier, services, heap, rateStore, settingsForm, component>>

\* What the operations of one service instance leave alone.
elsewhere == <<earlier, services, heap, rateStore, settingsForm, component>>

Call(op, args, ret) == [op |-> op, args |-> args, ret |-> ret]

Idle == Call("idle", <<>>, <<>>)

\* No call is kept.
NothingEarlier == Kept(Idle, DEFAULT_RATES)

\* new SalaryCalculatorService(): this.rates = DEFAULT_RATES
Init ==
  /\ rates = DEFAULT_RATES
  /\ call = Idle
  /\ earlier = NothingEarlier
  /\ services = TwoDefaultServices
  /\ heap = CallerObjects
  /\ rateStore = InitialRateStore
  /\ settingsForm = InitialSettingsForm(DefaultSettings)
  /\ component = InitialComponent(<<>>)

\* updateRates(newRates): this.rates = { ...newRates }
UpdateRates ==
  /\ call = Idle
  /\ \E newRates \in RateTables :
       /\ rates' = newRates
       /\ call' = Call("updateRates", [newRates |-> newRates], <<>>)
       /\ UNCHANGED elsewhere

CalculateHourlyRate ==
  /\ call = Idle
  /\ \E salary \in SalaryValues, useCeiling \in BOOLEAN :
       /\ call' = Call("calculateHourlyRate",
                       [salary |-> salary, useCeiling |-> useCeiling],
                       calculateHourlyRate(salary, useCeiling))
       /\ UNCHANGED <<rates, elsewhere>>

CalculateDailyWage ==
  /\ call = Idle
  /\ \E salary \in SalaryValues, useCeiling \in BOOLEAN :
       /\ call' = Call("calculateDailyWage",
                       [salary |-> salary, useCeiling |-> useCeiling],
                       calculateDailyWage(salary, useCeiling))
       /\ UNCHANGED <<rates, elsewhere>>

QuickHourlyRate ==
  /\ call = Idle
  /\ \E salary \in SalaryValues, useCeiling \in BOOLEAN :
       /\ call' = Call("quickCalculate.hourlyRate",
                       [salary |-> salary, useCeiling |-> useCeiling],
                       quickHourlyRate(salary, useCeiling))
       /\ UNCHANGED <<rates, elsewhere>>

QuickDailyWage ==
  /\ call = Idle
  /\ \E salary \in SalaryValues, useCeiling \in BOOLEAN :
       /\ call' = Call("quickCalculate.dailyWage",
                       [salary |-> salary, useCeiling |-> useCeiling],
                       quickDailyWage(salary, useCeiling))
       /\ UNCHANGED <<rates, elsewhere>>

ParseHoursInput ==
  /\ call = Idle
  /\ \E input \in ParseInputs :
       /\ call' = Call("parseHoursInput", [input |-> input],
                       parseHoursInput(input))
       /\ UNCHANGED <<rates, elsewhere>>

CalculateWeekdayOvertime ==
  /\ call = Idle
  /\ \E hours \in HoursValues, hourlyRate \in HourlyRateValues,
        isEmergency \in BOOLEAN :
       /\ call' = Call("calculateWeekdayOvertime",
                       [hours |-> hours, hourlyRate |-> hourlyRate,
                        isEmergency |-> isEmergency],
                       calculateWeekdayOvertime(rates, hours, hourlyRate,
                                                isEmergency))
       /\ UNCHANGED <<rates, elsewhere>>

CalculateRestDayOvertime ==
  /\ call = Idle
  /\ \E hours \in HoursValues, hourlyRate \in HourlyRateValues :
       /\ call' = Call("calculateRestDayOvertime",
                       [hours |-> hours, hourlyRate |-> hourlyRate],
                       calculateRestDayOvertime(rates, hours, hourlyRate))
       /\ UNCHANGED <<rates, elsewhere>>

CalculateHolidayPay ==
  /\ call = Idle
  /\ \E hours \in HoursValues, hourlyRate \in HourlyRateValues,
        holidayType \in {"holiday", "regular"} :
       /\ call' = Call("calculateHolidayPay",
                       [hours |-> hours, hourlyRate |-> hourlyRate,
                        holidayType |-> holidayType],
                       calculateHolidayPay(rates, hours, hourlyRate, holidayType))
       /\ UNCHANGED <<rates, elsewhere>>

CalculateComprehensive ==
  /\ call = Idle
  /\ \E monthlySalary \in ComprehensiveSalaries, workData \in WorkDataInputs,
        useCeilingCalculation \in BOOLEAN :
       /\ call' = Call("calculateComprehensive",
                       [monthlySalary |-> monthlySalary, workData |-> workData,
                        useCeilingCalculation |-> useCeilingCalculation],
                       calculateComprehensive(rates, monthlySalary, workData,
                                              useCeilingCalculation))
       /\ UNCHANGED <<rates, elsewhere>>

ValidateWorkHours ==
  /\ call = Idle
  /\ \E workData \in ValidateInputs :
       /\ call' = Call("validateWorkHours", [workData |-> workData],
                       validateWorkHours(workData))
       /\ UNCHANGED <<rates, elsewhere>>

\* A click on the component's calculate button, the form holding
\* monthlySalary, workData and useCeilingCalculation, and the results state
\* holding nothing or the result of an earlier click.
ComponentCalculate ==
  /\ call = Idle
  /\ \E monthlySalary \in SalaryTexts, workData \in WorkDataInputs,
        useCeilingCalculation \in BOOLEAN, results \in PreviousResults :
       /\ call' = Call("component.calculateComprehensive",
                       [monthlySalary |-> monthlySalary, workData |-> workData,
                        useCeilingCalculation |-> useCeilingCalculation,
                        results |-> results],
                       compCalculateComprehensive(monthlySalary, workData,
                                                  useCeilingCalculation,
                                                  results))
       /\ UNCHANGED <<rates, elsewhere>>

\* getCurrentRates(): return { ...this.rates }
GetCurrentRates ==
  /\ call = Idle
  /\ call' = Call("getCurrentRates", <<>>, getCurrentRates(rates))
  /\ UNCHANGED <<rates, elsewhere>>

\* The caller is done with the outcome of the last operation.
Return ==
  /\ call # Idle
  /\ call' = Idle
  /\ UNCHANGED <<rates, elsewhere>>

Next ==
  \/ UpdateRates
  \/ CalculateHourlyRate
  \/ CalculateDailyWage
  \/ QuickHourlyRate
  \/ QuickDailyWage
  \/ ParseHoursInput
  \/ CalculateWeekdayOvertime
  \/ CalculateRestDayOvertime
  \/ CalculateHolidayPay
  \/ CalculateComprehensive
  \/ ValidateWorkHours
  \/ ComponentCalculate
  \/ GetCurrentRates
  \/ Return

Spec == Init /\ [][Next]_vars

(***************************************************************************)
(* Repeated calculations: one service instance whose rate table is given   *)
(* at construction and not updated afterwards; the caller keeps the        *)
(* outcome of a calculateComprehensive call and calls again later.         *)
(***************************************************************************)
RepeatSalaries == {Num(0), Num(7250)}

RepeatWorkData ==
  {WorkDataInput(<<"3">>, <<>>, <<>>, <<>>, FALSE),
   WorkDataInput(<<"3">>, <<>>, <<>>, <<>>, TRUE),
   WorkDataInput(<<"9", ",", "2", ".", "5">>, <<"9">>, <<"8">>, <<"8">>, FALSE),
   WorkDataInput(<<"3", ",", "a">>, <<"9">>, <<>>, <<>>, FALSE)}

\* new SalaryCalculatorService(table)
RepeatInit ==
  /\ rates \in RateTables
  /\ call = Idle
  /\ earlier = NothingEarlier
  /\ services = TwoDefaultServices
  /\ heap = CallerObjects
  /\ rateStore = InitialRateStore
  /\ settingsForm = InitialSettingsForm(DefaultSettings)
  /\ component = InitialComponent(<<>>)

\* Mutant: the emergency flag is applied by overwriting the two weekday
\* tiers of this.rates with the emergency multiplier, and stays applied.
CalculateRepeatable_EmergencyStaysApplied ==
  /\ call = Idle
  /\ \E monthlySalary \in RepeatSalaries, workData \in RepeatWorkData,
        useCeilingCalculation \in BOOLEAN :
       /\ rates' = IF workData.isEmergency
                     THEN [rates EXCEPT
                             !.weekdayFirst2hr = rates.weekdayEmergency,
                             !.weekdayNext2hr = rates.weekdayEmergency]
                     ELSE rates
       /\ call' = Call("calculateComprehensive",
                       [monthlySalary |-> monthlySalary, workData |-> workData,
                        useCeilingCalculation |-> useCeilingCalculation],
                       calculateComprehensive(rates', monthlySalary, workData,
                                              useCeilingCalculation))
       /\ UNCHANGED elsewhere

\* calculateComprehensive, on the inputs the caller repeats.
CalculateRepeatable ==
  /\ call = Idle
  /\ \E monthlySalary \in RepeatSalaries, workData \in RepeatWorkData,
        useCeilingCalculation \in BOOLEAN :
       /\ call' = Call("calculateComprehensive",
                       [monthlySalary |-> monthlySalary, workData |-> workData,
                        useCeilingCalculation |-> useCeilingCalculation],
                       calculateComprehensive(rates, monthlySalary, workData,
                                              useCeilingCalculation))
       /\ UNCHANGED <<rates, elsewhere>>

\* The caller keeps the outcome of the calculation it has just made.
Keep ==
  /\ call.op = "calculateComprehensive"
  /\ earlier' = Kept(call, rates)
  /\ call' = Idle
  /\ UNCHANGED <<rates, services, heap, rateStore, settingsForm, component>>

RepeatNext ==
  \/ CalculateRepeatable
  \/ Keep
  \/ CalculateHourlyRate
  \/ CalculateDailyWage
  \/ CalculateWeekdayOvertime
  \/ CalculateRestDayOvertime
  \/ CalculateHolidayPay
  \/ ValidateWorkHours
  \/ GetCurrentRates
  \/ Return

RepeatSpec == RepeatInit /\ [][RepeatNext]_vars
(***************************************************************************)
(* The settings store under arbitrary calls of its four actions. call      *)
(* holds the store action just run, with the state it was run on.          *)
(***************************************************************************)
\* Values handed to setCustomRates(key, value).
StoreRateValues == {Num(3), Num(0)}

StoreInit ==
  /\ rateStore = InitialRateStore
  /\ rates = DEFAULT_RATES
  /\ call = Idle
  /\ earlier = NothingEarlier
  /\ services = TwoDefaultServices
  /\ heap = CallerObjects
  /\ settingsForm = InitialSettingsForm(DefaultSettings)
  /\ component = InitialComponent(<<>>)

storeElsewhere == <<rates, earlier, services, heap, settingsForm, component>>

SetCustomRates ==
  /\ call = Idle
  /\ \E key \in RateKeys, value \in StoreRateValues :
       /\ rateStore' = setCustomRates(rateStore, key, value)
       /\ call' = Call("setCustomRates",
                       [before |-> rateStore, key |-> key, value |-> value],
                       Returned(<<>>))
  /\ UNCHANGED storeElsewhere

SetUseCeilingCalculation ==
  /\ call = Idle
  /\ \E value \in BOOLEAN :
       /\ rateStore' = setUseCeilingCalculation(rateStore, value)
       /\ call' = Call("setUseCeilingCalculation",
                       [before |-> rateStore, value |-> value],
                       Returned(<<>>))
  /\ UNCHANGED storeElsewhere

ResetCustomRates ==
  /\ call = Idle
  /\ rateStore' = resetCustomRates(rateStore)
  /\ call' = Call("resetCustomRates", [before |-> rateStore], Returned(<<>>))
  /\ UNCHANGED storeElsewhere

ResetAllSettings ==
  /\ call = Idle
  /\ rateStore' = resetAllSettings(rateStore)
  /\ call' = Call("resetAllSettings", [before |-> rateStore], Returned(<<>>))
  /\ UNCHANGED storeElsewhere

StoreReturn ==
  /\ call # Idle
  /\ call' = Idle
  /\ UNCHANGED <<rateStore, storeElsewhere>>

StoreNext ==
  \/ SetCustomRates
  \/ SetUseCeilingCalculation
  \/ ResetCustomRates
  \/ ResetAllSettings
  \/ StoreReturn

StoreSpec == StoreInit /\ [][StoreNext]_vars

(***************************************************************************)
(* The settings form under arbitrary edits, blurs, toggles, reset-all and  *)
(* submits. call holds the blur just handled (with the form it was handled *)
(* on) or the data just handed to onConfirm.                               *)
(***************************************************************************)
\* The fields whose text inputs are edited.
EditedFields == {"weekdayFirst2hr", "holidayRate"}

\* Texts typed into a rate input.
RateTexts ==
  {<<>>, <<" ">>, <<"a">>, <<"0">>, <<"-", "1">>,
   <<"3", "/", "2">>, <<"1", "/", "0">>, <<"1", "/", "2", "/", "3">>,
   <<"2", ".", "5">>, InfinityWord}

\* initialData: none given, or settings saved earlier.
InitialSettings ==
  {DefaultSettings,
   SettingsFormData([FormDefaultRates EXCEPT !.holidayRate = Fin(5, 2)],
                    FALSE)}

FormInit ==
  /\ \E initialData \in InitialSettings :
       settingsForm = InitialSettingsForm(initialData)
  /\ rates = DEFAULT_RATES
  /\ call = Idle
  /\ earlier = NothingEarlier
  /\ services = TwoDefaultServices
  /\ heap = CallerObjects
  /\ rateStore = InitialRateStore
  /\ component = InitialComponent(<<>>)

formElsewhere == <<rates, earlier, services, heap, rateStore, component>>

\* onChange of a rate input
HandleInputChange ==
  /\ call = Idle
  /\ \E field \in EditedFields, value \in RateTexts :
       settingsForm' = handleInputChange(settingsForm, field, value)
  /\ UNCHANGED <<call, formElsewhere>>

\* onBlur of a rate input: e.target.value is the text the input shows.
HandleInputBlur ==
  /\ call = Idle
  /\ \E field \in EditedFields :
       /\ settingsForm' =
            handleInputBlur(settingsForm, field,
                            settingsForm.inputValues[field])
       /\ call' = Call("handleInputBlur",
                       [before |-> settingsForm, field |-> field,
                        value |-> settingsForm.inputValues[field]],
                       Returned(<<>>))
  /\ UNCHANGED formElsewhere

\* onClick of the rounding switch
FormToggleCeiling ==
  /\ call = Idle
  /\ settingsForm' = ToggleFormCeiling(settingsForm)
  /\ UNCHANGED <<call, formElsewhere>>

HandleResetAll ==
  /\ call = Idle
  /\ settingsForm' = handleResetAll(settingsForm)
  /\ UNCHANGED <<call, formElsewhere>>

\* onSubmit: onConfirm(formData)
HandleSubmit ==
  /\ call = Idle
  /\ call' = Call("onConfirm", [formData |-> settingsForm.formData],
                  Returned(<<>>))
  /\ UNCHANGED <<settingsForm, formElsewhere>>

FormReturn ==
  /\ call # Idle
  /\ call' = Idle
  /\ UNCHANGED <<settingsForm, formElsewhere>>

FormNext ==
  \/ HandleInputChange
  \/ HandleInputBlur
  \/ FormToggleCeiling
  \/ HandleResetAll
  \/ HandleSubmit
  \/ FormReturn

FormSpec == FormInit /\ [][FormNext]_vars

(***************************************************************************)
(* The SalaryCalculator component under arbitrary salary edits, hour       *)
(* edits, rounding toggles, calculate clicks and resets.                   *)
(***************************************************************************)
\* Values of the salary input (type="number").
SalaryEdits == {<<>>, <<"7", "2", "5", "0">>, <<"2", "4", "0", "0", "0">>}

\* Values typed into the hour inputs and the emergency checkbox.
WorkDataEdits ==
  [weekdayOvertime : {<<>>, <<"3">>, <<"9", ",", "2", ".", "5">>},
   restDayWork : {<<>>, <<"9">>},
   isEmergency : BOOLEAN]

ComponentInit ==
  /\ component = InitialComponent(<<>>)
  /\ rates = DEFAULT_RATES
  /\ call = Idle
  /\ earlier = NothingEarlier
  /\ services = TwoDefaultServices
  /\ heap = CallerObjects
  /\ rateStore = InitialRateStore
  /\ settingsForm = InitialSettingsForm(DefaultSettings)

componentElsewhere ==
  <<rates, call, earlier, services, heap, rateStore, settingsForm>>

\* onChange of the salary input: setMonthlySalary(e.target.value)
SetMonthlySalary ==
  /\ \E value \in SalaryEdits :
       component' = [component EXCEPT !.monthlySalary = value]
  /\ UNCHANGED componentElsewhere

\* onChange of an hour input or of the emergency checkbox
ComponentInputChange ==
  /\ \E edits \in WorkDataEdits :
       \E field \in DOMAIN edits :
         component' = compHandleInputChange(component, field, edits[field])
  /\ UNCHANGED componentElsewhere

\* onClick of the rounding switch
ComponentToggleCeiling ==
  /\ component' = compToggleCeiling(component)
  /\ UNCHANGED componentElsewhere

\* onClick of the calculate button, which is disabled while the salary
\* input is empty.
ClickCalculate ==
  /\ component.monthlySalary # <<>>
  /\ component' = compClickCalculate(component)
  /\ UNCHANGED componentElsewhere

\* onClick of the reset button
ResetForm ==
  /\ component' = resetForm(component)
  /\ UNCHANGED componentElsewhere

ComponentNext ==
  \/ SetMonthlySalary
  \/ ComponentInputChange
  \/ ComponentToggleCeiling
  \/ ClickCalculate
  \/ ResetForm

ComponentSpec == ComponentInit /\ [][ComponentNext]_vars

(***************************************************************************)
(* Two service instances and the caller's rate-table objects, under        *)
(* arbitrary constructions, updates, reads, calculations and assignments   *)
(* by the caller to the fields of its own objects. call holds the          *)
(* configuration or calculation call just made.                            *)
(***************************************************************************)
Instances == {"a", "b"}

\* The caller's objects handed to the constructor and to updateRates.
ConfiguringObjects == {"arg", "got"}

\* customRates handed to createCustomCalculator.
PartialRates == {[holidayRate |-> Num(0)], [weekdayEmergency |-> Num(3)]}

\* The caller's assignment o.holidayRate = value.
AssignedValues == {Num(0), Num(3)}

InstanceInit ==
  /\ services = TwoDefaultServices
  /\ heap = CallerObjects
  /\ rates = DEFAULT_RATES
  /\ call = Idle
  /\ earlier = NothingEarlier
  /\ rateStore = InitialRateStore
  /\ settingsForm = InitialSettingsForm(DefaultSettings)
  /\ component = InitialComponent(<<>>)

instanceElsewhere == <<rates, earlier, rateStore, settingsForm, component>>

\* A configuration call: the instance configured and the table handed over.
Configured(op, instance, table) ==
  Call(op, [instance |-> instance, rates |-> table], Returned(<<>>))

\* services[i] = new SalaryCalculatorService()
ConstructDefault ==
  /\ call = Idle
  /\ \E i \in Instances :
       /\ services' = [services EXCEPT ![i] = NewDefaultService]
       /\ call' = Configured("constructor", i, DEFAULT_RATES)
  /\ UNCHANGED <<heap, instanceElsewhere>>

\* services[i] = new SalaryCalculatorService(o)
Construct ==
  /\ call = Idle
  /\ \E i \in Instances, o \in ConfiguringObjects :
       /\ services' = [services EXCEPT ![i] = NewService(heap, o)]
       /\ call' = Configured("constructor", i, heap[o])
  /\ UNCHANGED <<heap, instanceElsewhere>>

\* services[i] = createCustomCalculator(customRates)
CreateCustomCalculator ==
  /\ call = Idle
  /\ \E i \in Instances, customRates \in PartialRates :
       /\ services' = [services EXCEPT ![i] =
                         createCustomCalculator(customRates)]
       /\ call' = Configured("createCustomCalculator", i,
                             MergeRates(customRates))
  /\ UNCHANGED <<heap, instanceElsewhere>>

\* services[i].updateRates(o)
InstanceUpdateRates ==
  /\ call = Idle
  /\ \E i \in Instances, o \in ConfiguringObjects :
       /\ services' = [services EXCEPT ![i] = ServiceUpdateRates(heap[o])]
       /\ call' = Configured("updateRates", i, heap[o])
  /\ UNCHANGED <<heap, instanceElsewhere>>

\* got = services[i].getCurrentRates()
InstanceGetCurrentRates ==
  /\ call = Idle
  /\ \E i \in Instances :
       heap' = [heap EXCEPT
                  !.got = getCurrentRates(ThisRates(heap, services[i]))]
  /\ UNCHANGED <<services, call, instanceElsewhere>>

\* o.holidayRate = value, o an object the caller holds
Assign ==
  /\ call = Idle
  /\ \E o \in DOMAIN heap, value \in AssignedValues :
       heap' = [heap EXCEPT ![o].holidayRate = value]
  /\ UNCHANGED <<services, call, instanceElsewhere>>

\* services[i].calculateHolidayPay(8, 100, holidayType)
InstanceCalculateHolidayPay ==
  /\ call = Idle
  /\ \E i \in Instances, holidayType \in {"holiday", "regular"} :
       call' = Call("calculateHolidayPay",
                    [instance |-> i, hours |-> Num(8),
                     hourlyRate |-> Num(100), holidayType |-> holidayType],
                    calculateHolidayPay(ThisRates(heap, services[i]),
                                        Num(8), Num(100), holidayType))
  /\ UNCHANGED <<services, heap, instanceElsewhere>>

InstanceReturn ==
  /\ call # Idle
  /\ call' = Idle
  /\ UNCHANGED <<services, heap, instanceElsewhere>>

InstanceNext ==
  \/ ConstructDefault
  \/ Construct
  \/ CreateCustomCalculator
  \/ InstanceUpdateRates
  \/ InstanceGetCurrentRates
  \/ Assign
  \/ InstanceCalculateHolidayPay
  \/ InstanceReturn

InstanceSpec == InstanceInit /\ [][InstanceNext]_vars




(***************************************************************************)
(* Properties                                                              *)
(*                                                                         *)
(* The formulas of the specification, stated on their own: the nearest     *)
(* cent with a half going up, and the piecewise pay of each category as a  *)
(* real number, before any rounding.                                       *)
(***************************************************************************)
\* x to the nearest cent, a half cent going up: the c/100 with
\* c <= 100x + 1/2 < c + 1.
CentRounded(x) == Fin((200 * x.n + x.d) \div (2 * x.d), 100)

\* h * r * m as a real number.
Product3(h, r, m) == Fin(h.n * r.n * m.n, h.d * r.d * m.d)

\* a + b as a real number.
Plus(a, b) == Fin(a.n * b.d + b.n * a.d, a.d * b.d)

\* a - b as a real number.
Minus(a, b) == Fin(a.n * b.d - b.n * a.d, a.d * b.d)

Less(a, b) == a.n * b.d < b.n * a.d
AtMost(a, b) == a.n * b.d <= b.n * a.d

WeekdayUpTo2(rt, h, r) == Product3(h, r, rt.weekdayFirst2hr)

WeekdayUpTo4(rt, h, r) ==
  Plus(Product3(Num(2), r, rt.weekdayFirst2hr),
       Product3(Minus(h, Num(2)), r, rt.weekdayNext2hr))

WeekdayOver4(rt, h, r) ==
  Plus(Plus(Product3(Num(2), r, rt.weekdayFirst2hr),
            Product3(Num(2), r, rt.weekdayNext2hr)),
       Product3(Minus(h, Num(4)), r, rt.weekdayNext2hr))

\* The tiered weekday pay of the specification for h > 0, not yet rounded.
WeekdayTiered(rt, h, r) ==
  IF AtMost(h, Num(2)) THEN WeekdayUpTo2(rt, h, r)
  ELSE IF AtMost(h, Num(4)) THEN WeekdayUpTo4(rt, h, r)
  ELSE WeekdayOver4(rt, h, r)

\* The single-day weekday pay of the specification: nothing for h <= 0, the
\* flat emergency multiplier under the flag, the tiers otherwise.
WeekdaySingleDay(rt, h, r, emergency) ==
  IF AtMost(h, Zero) THEN Zero
  ELSE IF emergency THEN CentRounded(Product3(h, r, rt.weekdayEmergency))
  ELSE CentRounded(WeekdayTiered(rt, h, r))

RestDayUpTo2(rt, h, r) == Product3(h, r, rt.restDayFirst2hr)

RestDayUpTo8(rt, h, r) ==
  Plus(Product3(Num(2), r, rt.restDayFirst2hr),
       Product3(Minus(h, Num(2)), r, rt.restDay2to8hr))

RestDayOver8(rt, h, r) ==
  Plus(Plus(Product3(Num(2), r, rt.restDayFirst2hr),
            Product3(Num(6), r, rt.restDay2to8hr)),
       Product3(Minus(h, Num(8)), r, rt.restDayOver8hr))

RECURSIVE PlusAll(_)
\* The sum of a sequence of real numbers.
PlusAll(q) == IF q = <<>> THEN Zero ELSE Plus(Head(q), PlusAll(Tail(q)))

\* The trimmed comma-separated tokens of a raw string, as numbers.
TokenValues(input) ==
  [i \in 1..Len(Split(input, ",")) |-> parseFloat(Trim(Split(input, ",")[i]))]

\* The last operation was op and it returned (it did not throw).
ReturnedFrom(op) == call.op = op /\ ~call.ret.threw

\* The last operation was calculateComprehensive with a finite wage base and
\* it returned a result holding category c.
Priced4(c) ==
  /\ ReturnedFrom("calculateComprehensive")
  /\ IsFinite(call.ret.value.hourlyRate)
  /\ c \in DOMAIN call.ret.value.calculations

\* C1: a weekday-overtime string of more than one comma-separated token is
\* paid the sum, over the tokens, of the single-day weekday pay of each
\* day's hours taken on its own.
C1_MultiDayIsSumOfDays ==
  (/\ Priced4("weekdayOvertime")
   /\ Len(TokenValues(call.args.workData.weekdayOvertime)) > 1)
  => LET days == TokenValues(call.args.workData.weekdayOvertime)
     IN  call.ret.value.calculations["weekdayOvertime"].pay =
           PlusAll([i \in 1..Len(days) |->
                      WeekdaySingleDay(rates, days[i],
                                       call.ret.value.hourlyRate,
                                       call.args.workData.isEmergency)])

\* C1 witness: "9,9,9,9" was paid four times the pay of 9 hours, which is
\* not the pay of 36 hours.
C1_Witness ==
  /\ Priced4("weekdayOvertime")
  /\ call.args.workData.weekdayOvertime = <<"9", ",", "9", ",", "9", ",", "9">>
  /\ ~call.args.workData.isEmergency
  /\ call.ret.value.calculations["weekdayOvertime"].pay =
       Product3(Num(4), Num(1),
                WeekdaySingleDay(rates, Num(9), call.ret.value.hourlyRate, FALSE))
  /\ call.ret.value.calculations["weekdayOvertime"].pay #
       WeekdaySingleDay(rates, Num(36), call.ret.value.hourlyRate, FALSE)


\* The last operation was calculateWeekdayOvertime(hours, hourlyRate,
\* emergency) with hours > 0.
WeekdayCall(emergency) ==
  /\ call.op = "calculateWeekdayOvertime"
  /\ call.args.isEmergency = emergency
  /\ Less(Zero, call.args.hours)

\* The tiered formula of C2: for hours > 0 without the emergency flag the pay
\* is the tiered amount, rounded to the cent once, after the sum.
WeekdayPayIsTiered ==
  WeekdayCall(FALSE)
  => call.ret.pay =
       CentRounded(WeekdayTiered(rates, call.args.hours, call.args.hourlyRate))

\* The example of C2: 3 hours at an hourly rate of 100 under the default
\* rates.
WeekdayExample ==
  /\ WeekdayCall(FALSE)
  /\ rates = DEFAULT_RATES
  /\ call.args.hours = Num(3)
  /\ call.args.hourlyRate = Num(100)

\* C2 as stated: the tiered formula, and the example priced 266.67.
C2_Original ==
  /\ WeekdayPayIsTiered
  /\ WeekdayExample => call.ret.pay = Fin(26667, 100)

\* C2 as amended: the tiered formula, rounded once after the sum, and the
\* example priced 433.33 = round(2 x 100 x 4/3 + 1 x 100 x 5/3).
C2_WeekdayTiers ==
  /\ WeekdayPayIsTiered
  /\ WeekdayExample => call.ret.pay = Fin(43333, 100)

\* C2 witness: the example was priced 433.33, where rounding each of the two
\* sub-bracket subtotals first would have given 266.67 + 166.67 = 433.34.
C2_Witness ==
  /\ WeekdayExample
  /\ call.ret.pay = Fin(43333, 100)
  /\ Plus(CentRounded(Product3(Num(2), Num(100), Fin(4, 3))),
          CentRounded(Product3(Num(1), Num(100), Fin(5, 3)))) = Fin(43334, 100)


\* The last operation was calculateRestDayOvertime(hours, hourlyRate) with
\* hours > 0.
RestDayCall ==
  /\ call.op = "calculateRestDayOvertime"
  /\ Less(Zero, call.args.hours)

\* The tiered rest-day pay of the specification for h > 0, not yet rounded.
RestDayTiered(rt, h, r) ==
  IF AtMost(h, Num(2)) THEN RestDayUpTo2(rt, h, r)
  ELSE IF AtMost(h, Num(8)) THEN RestDayUpTo8(rt, h, r)
  ELSE RestDayOver8(rt, h, r)

\* The single-day rest-day pay of the specification.
RestDaySingleDay(rt, h, r) ==
  IF AtMost(h, Zero) THEN Zero ELSE CentRounded(RestDayTiered(rt, h, r))

\* The example of C3: 9 hours at an hourly rate of 100 under the default
\* rates.
RestDayExample ==
  /\ RestDayCall
  /\ rates = DEFAULT_RATES
  /\ call.args.hours = Num(9)
  /\ call.args.hourlyRate = Num(100)

\* C3: for hours > 0, calculateRestDayOvertime pays the cent-rounded tiered
\* amount with tiers at 2 and 8 hours; 9 hours at 100 under the default rates
\* is 1533.33; the formulas of adjacent tiers give the same amount at 2 hours
\* and at 8 hours.
C3_RestDayTiers ==
  /\ RestDayCall
       => call.ret.pay =
            CentRounded(RestDayTiered(rates, call.args.hours,
                                      call.args.hourlyRate))
  /\ RestDayExample => call.ret.pay = Fin(153333, 100)
  /\ (RestDayCall /\ call.args.hours = Num(2))
       => RestDayUpTo2(rates, Num(2), call.args.hourlyRate) =
            RestDayUpTo8(rates, Num(2), call.args.hourlyRate)
  /\ (RestDayCall /\ call.args.hours = Num(8))
       => RestDayUpTo8(rates, Num(8), call.args.hourlyRate) =
            RestDayOver8(rates, Num(8), call.args.hourlyRate)

\* C3 witness: the example was priced 1533.33, which is not what the 2-to-8
\* multiplier on the ninth hour would give (1433.33).
C3_Witness ==
  /\ RestDayExample
  /\ call.ret.pay = Fin(153333, 100)
  /\ call.ret.pay # CentRounded(RestDayUpTo8(rates, Num(9), Num(100)))


\* Flat pay of the specification: nothing for h <= 0, else h * r * m to the
\* cent.
FlatSingleDay(h, r, m) ==
  IF AtMost(h, Zero) THEN Zero ELSE CentRounded(Product3(h, r, m))

\* The pay of the specification for one day of category c that is not
\* weekday overtime; the emergency flag is not among its arguments.
OtherCategoryDay(c, rt, h, r) ==
  CASE c = "restDayWork" -> RestDaySingleDay(rt, h, r)
    [] c = "holidayWork" -> FlatSingleDay(h, r, rt.holidayRate)
    [] c = "regularDayOffWork" -> FlatSingleDay(h, r, rt.regularDayOffRate)

\* The pay of the specification for the raw string of category c: the sum
\* over its days.
OtherCategoryPay(c, rt, input, r) ==
  PlusAll([i \in 1..Len(TokenValues(input)) |->
             OtherCategoryDay(c, rt, TokenValues(input)[i], r)])

\* C4: under the emergency flag calculateWeekdayOvertime pays, for hours > 0,
\* hours x hourlyRate x weekdayEmergency to the cent, whatever the tiers; and
\* in a result of calculateComprehensive the rest-day, holiday and
\* regular-day-off pay are what they are without the flag.
C4_EmergencyIsFlat ==
  /\ WeekdayCall(TRUE)
       => call.ret.pay =
            CentRounded(Product3(call.args.hours, call.args.hourlyRate,
                                 rates.weekdayEmergency))
  /\ \A c \in {"restDayWork", "holidayWork", "regularDayOffWork"} :
       Priced4(c)
         => call.ret.value.calculations[c].pay =
              OtherCategoryPay(c, rates, call.args.workData[c],
                               call.ret.value.hourlyRate)
  /\ (Priced4("weekdayOvertime") /\ call.args.workData.isEmergency)
       => call.ret.value.calculations["weekdayOvertime"].pay =
            PlusAll([i \in 1..Len(TokenValues(call.args.workData.weekdayOvertime)) |->
                       FlatSingleDay(
                         TokenValues(call.args.workData.weekdayOvertime)[i],
                         call.ret.value.hourlyRate, rates.weekdayEmergency)])

\* C4 witness: a comprehensive result under the flag with 9 weekday hours
\* paid flat, not tiered, and 9 rest-day hours paid their tiers.
C4_Witness ==
  /\ Priced4("weekdayOvertime")
  /\ Priced4("restDayWork")
  /\ call.args.workData.isEmergency
  /\ call.args.workData.weekdayOvertime = <<"9">>
  /\ call.args.workData.restDayWork = <<"9">>
  /\ call.ret.value.calculations["weekdayOvertime"].pay =
       CentRounded(Product3(Num(9), call.ret.value.hourlyRate,
                            rates.weekdayEmergency))
  /\ call.ret.value.calculations["weekdayOvertime"].pay #
       CentRounded(WeekdayTiered(rates, Num(9), call.ret.value.hourlyRate))
  /\ call.ret.value.calculations["restDayWork"].pay =
       RestDaySingleDay(rates, Num(9), call.ret.value.hourlyRate)


\* C5 as stated: emergency weekday pay is 2 x hourlyRate x hours (to the
\* cent) under every rate table.
C5_Original ==
  WeekdayCall(TRUE)
  => call.ret.pay =
       CentRounded(Product3(call.args.hours, call.args.hourlyRate, Num(2)))

\* C5 as amended: emergency weekday pay is hours x hourlyRate x the
\* weekdayEmergency of the table the service holds, to the cent; it is
\* 2 x hourlyRate x hours under every table whose weekdayEmergency is 2, the
\* default table among them.
C5_EmergencyUsesTableMultiplier ==
  WeekdayCall(TRUE)
  => /\ call.ret.pay =
          CentRounded(Product3(call.args.hours, call.args.hourlyRate,
                               rates.weekdayEmergency))
     /\ rates.weekdayEmergency = Num(2)
          => call.ret.pay =
               CentRounded(Product3(call.args.hours, call.args.hourlyRate,
                                    Num(2)))

\* C5 witness: after an update to a table whose weekdayEmergency is 3, an
\* emergency call was paid three times, not twice, hourlyRate x hours.
C5_Witness ==
  /\ WeekdayCall(TRUE)
  /\ rates # DEFAULT_RATES
  /\ rates.weekdayEmergency = Num(3)
  /\ call.ret.pay =
       CentRounded(Product3(call.args.hours, call.args.hourlyRate, Num(3)))
  /\ call.ret.pay #
       CentRounded(Product3(call.args.hours, call.args.hourlyRate, Num(2)))


\* The last operation was calculateHolidayPay(hours, hourlyRate, holidayType)
\* with hours > 0.
HolidayCall ==
  /\ call.op = "calculateHolidayPay"
  /\ Less(Zero, call.args.hours)

\* The last operation was a click on the component's calculate button that
\* set a result holding category c.
ComponentPriced(c) ==
  /\ call.op = "component.calculateComprehensive"
  /\ call.ret.completed
  /\ c \in DOMAIN call.ret.results.calculations

\* C6: holiday pay is flat, hours x hourlyRate x M to the cent, M being
\* regularDayOffRate for the regular day off and holidayRate for the
\* statutory holiday, in the service's calculateHolidayPay, in the results of
\* the service's calculateComprehensive and in the results the component
\* sets; 8 hours at 100 under the default rates is 1600.00.
C6_HolidayIsFlat ==
  /\ HolidayCall
       => call.ret.pay =
            CentRounded(Product3(call.args.hours, call.args.hourlyRate,
              IF call.args.holidayType = "regular"
                THEN rates.regularDayOffRate ELSE rates.holidayRate))
  /\ (/\ HolidayCall
      /\ rates = DEFAULT_RATES
      /\ call.args.holidayType = "holiday"
      /\ call.args.hours = Num(8)
      /\ call.args.hourlyRate = Num(100))
       => call.ret.pay = Fin(160000, 100)
  /\ \A c \in {"holidayWork", "regularDayOffWork"} :
       /\ Priced4(c)
            => call.ret.value.calculations[c].pay =
                 OtherCategoryPay(c, rates, call.args.workData[c],
                                  call.ret.value.hourlyRate)
       /\ ComponentPriced(c)
            => call.ret.results.calculations[c].pay =
                 OtherCategoryPay(c, ComponentRates, call.args.workData[c],
                                  call.ret.results.hourlyRate)

\* C6 witness: under a table whose two holiday multipliers differ, 8 hours of
\* regular day off were paid regularDayOffRate, not holidayRate.
C6_Witness ==
  /\ HolidayCall
  /\ call.args.holidayType = "regular"
  /\ call.args.hours = Num(8)
  /\ rates.regularDayOffRate # rates.holidayRate
  /\ call.ret.pay =
       CentRounded(Product3(Num(8), call.args.hourlyRate,
                            rates.regularDayOffRate))
  /\ call.ret.pay #
       CentRounded(Product3(Num(8), call.args.hourlyRate, rates.holidayRate))


\* The last operation was the wage-base function op on a finite salary.
WageCall(op) ==
  /\ call.op = op
  /\ IsFinite(call.args.salary)

\* c is x rounded up to the next whole unit: the whole number with
\* c - 1 < x <= c.
IsCeilingOf(c, x) ==
  /\ IsFinite(c)
  /\ c.d = 1
  /\ AtMost(x, c)
  /\ Less(Minus(c, Num(1)), x)

\* The last wage-base call returned salary / divisor in the rounding mode of
\* the call.
WageBaseIs(divisor) ==
  IF call.args.useCeiling
    THEN IsCeilingOf(call.ret, Fin(call.args.salary.n,
                                   call.args.salary.d * divisor))
    ELSE call.ret = CentRounded(Fin(call.args.salary.n,
                                    call.args.salary.d * divisor))

\* The last operation was op(salary, useCeiling) with these arguments.
WageCallOf(op, salary, useCeiling) ==
  /\ call.op = op
  /\ call.args.salary = Num(salary)
  /\ call.args.useCeiling = useCeiling

\* C7: calculateHourlyRate is salary / 240 and calculateDailyWage is
\* salary / 30, rounded up to the next whole unit in ceiling mode and to the
\* nearest cent otherwise; 7200 gives 30 in both modes, 7250 gives 31 in
\* ceiling mode, the daily wage of 7200 is 240, and an exact multiple of the
\* divisor is not rounded up further.
C7_WageBase ==
  /\ WageCall("calculateHourlyRate") => WageBaseIs(240)
  /\ WageCall("calculateDailyWage") => WageBaseIs(30)
  /\ WageCallOf("calculateHourlyRate", 7200, TRUE) => call.ret = Num(30)
  /\ WageCallOf("calculateHourlyRate", 7200, FALSE) => call.ret = Num(30)
  /\ WageCallOf("calculateHourlyRate", 7250, TRUE) => call.ret = Num(31)
  /\ WageCallOf("calculateDailyWage", 7200, TRUE) => call.ret = Num(240)
  /\ (WageCall("calculateHourlyRate") /\ call.args.useCeiling
        /\ call.args.salary.d = 1 /\ call.args.salary.n % 240 = 0)
       => call.ret = Num(call.args.salary.n \div 240)
  /\ (WageCall("calculateDailyWage") /\ call.args.useCeiling
        /\ call.args.salary.d = 1 /\ call.args.salary.n % 30 = 0)
       => call.ret = Num(call.args.salary.n \div 30)

\* C7 witness: the hourly rate of 7250 in ceiling mode was 31, above
\* 7250 / 240, where the nearest cent is 30.21.
C7_Witness ==
  /\ WageCallOf("calculateHourlyRate", 7250, TRUE)
  /\ call.ret = Num(31)
  /\ CentRounded(Fin(7250, 240)) = Fin(3021, 100)


\* x <= 0, as a number that is not NaN.
NotPositive(x) == x.k = "ninf" \/ (IsFinite(x) /\ x.n <= 0)

\* Some hour string of the work data has a token that is not a number.
SomeHoursMalformed(workData) ==
  \E c \in SeqRange(Categories) :
    /\ \E i \in 1..Len(workData[c]) : ~IsSpace(workData[c][i])
    /\ \E i \in 1..Len(TokenValues(workData[c])) :
         IsNaN(TokenValues(workData[c])[i])

\* C8: with a monthly salary <= 0 calculateComprehensive throws the
\* invalid-salary error and nothing else, whatever the hour strings hold; the
\* component's handler shows the same message, leaves its results as they
\* were and does not report a completed calculation.
C8_SalaryCheckedFirst ==
  /\ (call.op = "calculateComprehensive"
        /\ NotPositive(call.args.monthlySalary))
       => /\ call.ret.threw
          /\ call.ret.message = InvalidSalaryMessage
          /\ call.ret.value = <<>>
  /\ (call.op = "component.calculateComprehensive"
        /\ NotPositive(parseFloat(call.args.monthlySalary)))
       => /\ call.ret.alerted
          /\ call.ret.alert = InvalidSalaryMessage
          /\ call.ret.results = call.args.results
          /\ ~call.ret.completed

\* C8 witness: salary 0 together with the malformed weekday string "3, a"
\* ended in the invalid-salary error, not in the hours-format error.
C8_Witness ==
  /\ call.op = "calculateComprehensive"
  /\ call.args.monthlySalary = Zero
  /\ call.args.workData.weekdayOvertime = <<"3", ",", " ", "a">>
  /\ SomeHoursMalformed(call.args.workData)
  /\ call.ret.threw
  /\ call.ret.message = InvalidSalaryMessage
  /\ call.ret.message # InvalidHoursMessage(<<"a">>) \o FormatHint


\* A salary that is <= 0 or not finite.
InvalidSalary(x) == ~IsFinite(x) \/ x.n <= 0

\* C9 as stated: calculateHourlyRate, calculateDailyWage, the two
\* quickCalculate functions and calculateComprehensive fail with the
\* invalid-salary error whenever the salary is <= 0, NaN, +Infinity or
\* -Infinity.
C9_InvalidSalaryRejected ==
  /\ (call.op \in {"calculateHourlyRate", "calculateDailyWage",
                   "quickCalculate.hourlyRate", "quickCalculate.dailyWage"}
        /\ InvalidSalary(call.args.salary))
       => call.ret = Threw(InvalidSalaryMessage)
  /\ (call.op = "calculateComprehensive"
        /\ InvalidSalary(call.args.monthlySalary))
       => call.ret = Threw(InvalidSalaryMessage)


\* Every character of s is white space.
Blank(s) == \A i \in 1..Len(s) : IsSpace(s[i])

\* The positions that bound the comma-separated tokens of s: 0, the commas,
\* and Len(s) + 1.
Cuts(s) == {0, Len(s) + 1} \cup {i \in 1..Len(s) : s[i] = ","}

\* The k-th smallest element of a set of integers.
Kth(S, k) == CHOOSE i \in S : Cardinality({j \in S : j < i}) = k - 1

\* s without its leading and trailing white space.
Stripped(s) ==
  IF Blank(s) THEN <<>>
  ELSE SubSeq(s,
         CHOOSE i \in 1..Len(s) :
           ~IsSpace(s[i]) /\ \A j \in 1..(i - 1) : IsSpace(s[j]),
         CHOOSE i \in 1..Len(s) :
           ~IsSpace(s[i]) /\ \A j \in (i + 1)..Len(s) : IsSpace(s[j]))

\* The comma-separated tokens of s, each without its surrounding white
\* space, in input order.
StrippedTokens(s) ==
  [k \in 1..(Cardinality(Cuts(s)) - 1) |->
     Stripped(SubSeq(s, Kth(Cuts(s), k) + 1, Kth(Cuts(s), k + 1) - 1))]

\* The numbers the tokens denote, NaN for a token that is not a number.
Values(tokens) == [k \in 1..Len(tokens) |-> parseFloat(tokens[k])]

\* The outcome the specification gives parseHoursInput for a string that is
\* not blank, its tokens and their values given.
ParsedAsSpecified(ret, tokens, values) ==
  IF \E k \in 1..Len(values) : IsNaN(values[k])
    THEN /\ ret.tag = "throw"
         /\ ret.message =
              InvalidHoursMessage(
                tokens[CHOOSE k \in 1..Len(values) :
                         IsNaN(values[k])
                           /\ \A j \in 1..(k - 1) : ~IsNaN(values[j])])
    ELSE /\ ret.tag = "ok"
         /\ ret.total = PlusAll(values)
         /\ ret.detail = values
         /\ Len(ret.detail) >= 1

\* C10: parseHoursInput returns null for an empty or blank string; otherwise
\* it fails naming the first token, trimmed, that is not a number, or, when
\* every token is a number, returns their sum as total and the numbers in
\* input order, at least one, as detail.
C10_ParseHoursInput ==
  call.op = "parseHoursInput"
  => IF Blank(call.args.input)
       THEN call.ret.tag = "null"
       ELSE ParsedAsSpecified(call.ret, StrippedTokens(call.args.input),
                              Values(StrippedTokens(call.args.input)))

\* C10 witness: "3, a" failed naming "a".
C10_Witness ==
  /\ call.op = "parseHoursInput"
  /\ call.args.input = <<"3", ",", " ", "a">>
  /\ StrippedTokens(call.args.input) = <<<<"3">>, <<"a">>>>
  /\ call.ret.tag = "throw"
  /\ call.ret.message = InvalidHoursMessage(<<"a">>)


\* A token of the hour-string grammar: digits, optionally followed by "."
\* and digits.
IsNumeral(t) ==
  /\ t # <<>>
  /\ \A i \in 1..Len(t) : IsDigit(t[i]) \/ t[i] = "."
  /\ Cardinality({i \in 1..Len(t) : t[i] = "."}) <= 1
  /\ IsDigit(t[1])
  /\ IsDigit(t[Len(t)])

\* C11 as stated: a string that is not blank is parsed successfully exactly
\* when each of its comma-separated tokens, surrounding white space ignored,
\* is digits with an optional ".digits" part; every other string fails with
\* the format error.
C11_GrammarExact ==
  (call.op = "parseHoursInput" /\ ~Blank(call.args.input))
  => /\ call.ret.tag \in {"ok", "throw"}
     /\ call.ret.tag = "ok"
          <=> \A k \in 1..Len(StrippedTokens(call.args.input)) :
                IsNumeral(StrippedTokens(call.args.input)[k])

\* The numbers the comma-separated tokens of a raw string denote.
HoursOf(input) == Values(StrippedTokens(input))

\* The single-day pay of the specification for h hours of category c.
CategoryDay(c, rt, h, r, emergency) ==
  IF c = "weekdayOvertime" THEN WeekdaySingleDay(rt, h, r, emergency)
  ELSE OtherCategoryDay(c, rt, h, r)

\* The last operation was calculateComprehensive, it returned, and its wage
\* base is finite.
FiniteResult ==
  /\ ReturnedFrom("calculateComprehensive")
  /\ IsFinite(call.ret.value.hourlyRate)

\* C12: parseHoursInput accepts zero and negative values; every bracket
\* function called with hours <= 0 returns pay 0 and a single narrative
\* line; a category whose single token is <= 0 is present in the result of
\* calculateComprehensive with pay 0; in multi-day mode only the days with
\* hours > 0 are paid, each on its own.
C12_PermissiveParseStrictCompute ==
  /\ (/\ call.op = "parseHoursInput"
      /\ ~Blank(call.args.input)
      /\ \A k \in 1..Len(HoursOf(call.args.input)) :
           ~IsNaN(HoursOf(call.args.input)[k])
      /\ \E k \in 1..Len(HoursOf(call.args.input)) :
           AtMost(HoursOf(call.args.input)[k], Zero))
       => /\ call.ret.tag = "ok"
          /\ call.ret.detail = HoursOf(call.args.input)
  /\ (/\ call.op \in {"calculateWeekdayOvertime", "calculateRestDayOvertime",
                      "calculateHolidayPay"}
      /\ AtMost(call.args.hours, Zero))
       => /\ call.ret.pay = Zero
          /\ Len(call.ret.details) = 1
          /\ call.ret.details[1].tag =
               (IF call.op = "calculateWeekdayOvertime"
                  THEN "noOvertime" ELSE "noAttendance")
  /\ \A c \in SeqRange(Categories) :
       /\ (/\ FiniteResult
           /\ ~Blank(call.args.workData[c])
           /\ Len(HoursOf(call.args.workData[c])) = 1
           /\ AtMost(HoursOf(call.args.workData[c])[1], Zero))
            => /\ c \in DOMAIN call.ret.value.calculations
               /\ call.ret.value.calculations[c].pay = Zero
               /\ Len(call.ret.value.calculations[c].details) = 1
       /\ (Priced4(c) /\ Len(HoursOf(call.args.workData[c])) > 1)
            => call.ret.value.calculations[c].pay =
                 PlusAll([i \in 1..Len(HoursOf(call.args.workData[c])) |->
                   IF Less(Zero, HoursOf(call.args.workData[c])[i])
                     THEN CategoryDay(c, rates,
                            HoursOf(call.args.workData[c])[i],
                            call.ret.value.hourlyRate,
                            call.args.workData.isEmergency)
                     ELSE Zero])

\* C12 witness: the rest-day string "-2" is in the result with pay 0, and the
\* weekday string "-1,3" was paid as 3 hours, not as the 2 hours left after
\* netting.
C12_Witness ==
  /\ FiniteResult
  /\ call.args.workData.restDayWork = <<"-", "2">>
  /\ call.args.workData.weekdayOvertime = <<"-", "1", ",", "3">>
  /\ call.ret.value.calculations["restDayWork"].pay = Zero
  /\ call.ret.value.calculations["weekdayOvertime"].pay =
       WeekdaySingleDay(rates, Num(3), call.ret.value.hourlyRate,
                        call.args.workData.isEmergency)
  /\ call.ret.value.calculations["weekdayOvertime"].pay #
       WeekdaySingleDay(rates, Num(2), call.ret.value.hourlyRate,
                        call.args.workData.isEmergency)

\* Some value of the sequence is NaN.
HasNaN(values) == \E k \in 1..Len(values) : IsNaN(values[k])

\* The raw string holds a token that is not a number.
Malformed(input) == ~Blank(input) /\ HasNaN(HoursOf(input))

\* The first of the tokens whose value is NaN.
FirstBadOf(tokens, values) ==
  tokens[CHOOSE k \in 1..Len(values) :
           IsNaN(values[k]) /\ \A j \in 1..(k - 1) : ~IsNaN(values[j])]

\* The first token of a malformed string that is not a number.
FirstBadToken(input) ==
  FirstBadOf(StrippedTokens(input), Values(StrippedTokens(input)))

SomeMalformed(workData) ==
  \E c \in SeqRange(Categories) : Malformed(workData[c])

\* The first malformed category of the work data, in the order weekday,
\* rest day, holiday, regular day off.
FirstMalformed(workData) ==
  Categories[CHOOSE i \in 1..Len(Categories) :
               /\ Malformed(workData[Categories[i]])
               /\ \A j \in 1..(i - 1) : ~Malformed(workData[Categories[j]])]

\* The one message of an aborted calculation: the message of the parse
\* error followed by the examples of valid formats.
AbortMessage(workData) ==
  InvalidHoursMessage(FirstBadToken(workData[FirstMalformed(workData)]))
    \o FormatHint

\* The salary passes the check of calculateComprehensive.
SalaryAccepted(x) == x.k = "pinf" \/ (IsFinite(x) /\ x.n > 0)

\* C13: with a salary that passes the check and a malformed hour string,
\* calculateComprehensive returns no result and throws one error, the parse
\* error's message followed by the examples of valid formats; the
\* component shows that message, leaves its results state as it was and
\* does not call onCalculationComplete.
C13_FormatErrorAborts ==
  /\ (/\ call.op = "calculateComprehensive"
      /\ SalaryAccepted(call.args.monthlySalary)
      /\ SomeMalformed(call.args.workData))
       => /\ call.ret.threw
          /\ call.ret.value = <<>>
          /\ call.ret.message = AbortMessage(call.args.workData)
  /\ (/\ call.op = "component.calculateComprehensive"
      /\ SalaryAccepted(parseFloat(call.args.monthlySalary))
      /\ SomeMalformed(call.args.workData))
       => /\ call.ret.alerted
          /\ call.ret.alert = AbortMessage(call.args.workData)
          /\ call.ret.results = call.args.results
          /\ ~call.ret.completed

\* C13 witness: the component held an earlier result; 9 weekday hours parse,
\* the holiday string "8,a" does not; the earlier result is still there and
\* the alert names "a" and gives the examples.
C13_Witness ==
  /\ call.op = "component.calculateComprehensive"
  /\ call.args.results = EarlierResults
  /\ call.args.workData.weekdayOvertime = <<"9">>
  /\ call.args.workData.holidayWork = <<"8", ",", "a">>
  /\ SalaryAccepted(parseFloat(call.args.monthlySalary))
  /\ call.ret.results = EarlierResults
  /\ call.ret.alert = InvalidHoursMessage(<<"a">>) \o FormatHint
  /\ ~call.ret.completed

\* The message is a specific failure followed by the examples of valid hour
\* formats.
EndsWithExamples(message) ==
  /\ Len(message) > Len(FormatHint)
  /\ SubSeq(message, Len(message) - Len(FormatHint) + 1, Len(message)) =
       FormatHint

\* C14 as stated: every error calculateComprehensive throws, and every alert
\* of the component's handler, the invalid-salary error included, is one
\* message that ends with the examples of valid hour formats.
C14_EveryErrorCarriesExamples ==
  /\ (call.op = "calculateComprehensive" /\ call.ret.threw)
       => EndsWithExamples(call.ret.message)
  /\ (call.op = "component.calculateComprehensive" /\ call.ret.alerted)
       => EndsWithExamples(call.ret.alert)

\* The categories of the work data whose raw string is not blank, in order.
PresentCategories(workData) ==
  SelectSeq(Categories, LAMBDA c : ~Blank(workData[c]))

\* C15: in a result of calculateComprehensive a category is present exactly
\* when its raw string is not blank; hourlyRate and dailyWage are there; and
\* totalPay is the sum of the pay of the present categories to the cent, 0
\* when there is none.
C15_ResultShape ==
  /\ ReturnedFrom("calculateComprehensive")
       => /\ DOMAIN call.ret.value.calculations =
               SeqRange(PresentCategories(call.args.workData))
          /\ {"hourlyRate", "dailyWage", "totalPay", "calculations"}
               \subseteq DOMAIN call.ret.value
          /\ ~IsNaN(call.ret.value.hourlyRate)
          /\ ~IsNaN(call.ret.value.dailyWage)
  /\ FiniteResult
       => call.ret.value.totalPay =
            CentRounded(PlusAll(
              [i \in 1..Len(PresentCategories(call.args.workData)) |->
                 call.ret.value.calculations[
                   PresentCategories(call.args.workData)[i]].pay]))

\* C15 witness: the weekday string is one space and absent from the result;
\* rest day and holiday are present and totalPay is the sum of the two.
C15_Witness ==
  /\ FiniteResult
  /\ call.args.workData.weekdayOvertime = <<" ">>
  /\ DOMAIN call.ret.value.calculations = {"restDayWork", "holidayWork"}
  /\ call.ret.value.calculations["restDayWork"].pay # Zero
  /\ call.ret.value.totalPay =
       Plus(call.ret.value.calculations["restDayWork"].pay,
            call.ret.value.calculations["holidayWork"].pay)

\* The last operation priced category c from a raw string of one token: a
\* call of the service's calculateComprehensive that returned, with a finite
\* wage base.
SingleToken(c) ==
  /\ Priced4(c)
  /\ Len(HoursOf(call.args.workData[c])) = 1

\* The same for a click on the component's calculate button.
ComponentSingleToken(c) ==
  /\ ComponentPriced(c)
  /\ Len(HoursOf(call.args.workData[c])) = 1

\* C16: a category whose raw string is one token has, as its detail, what
\* the category's bracket function returns for that value: its pay, its
\* narrative lines, and no per-day breakdown; in the service and in the
\* component.
C16_SingleTokenPassesThrough ==
  \A c \in SeqRange(Categories) :
    /\ SingleToken(c)
         => /\ call.ret.value.calculations[c] =
                 InvokeMethod(rates,
                   CategoryMethod(c, call.args.workData.isEmergency),
                   HoursOf(call.args.workData[c])[1],
                   call.ret.value.hourlyRate)
            /\ ~call.ret.value.calculations[c].hasBreakdown
            /\ call.ret.value.calculations[c].pay =
                 CategoryDay(c, rates, HoursOf(call.args.workData[c])[1],
                             call.ret.value.hourlyRate,
                             call.args.workData.isEmergency)
    /\ ComponentSingleToken(c)
         => /\ call.ret.results.calculations[c].pay =
                 compInvokeMethod(
                   CategoryMethod(c, call.args.workData.isEmergency),
                   HoursOf(call.args.workData[c])[1],
                   call.ret.results.hourlyRate).pay
            /\ call.ret.results.calculations[c].details =
                 compInvokeMethod(
                   CategoryMethod(c, call.args.workData.isEmergency),
                   HoursOf(call.args.workData[c])[1],
                   call.ret.results.hourlyRate).details
            /\ ~call.ret.results.calculations[c].hasBreakdown

\* C16 witness: 9 rest-day hours in one token; the detail has the three
\* narrative lines of the bracket function and no breakdown.
C16_Witness ==
  /\ SingleToken("restDayWork")
  /\ call.args.workData.restDayWork = <<"9">>
  /\ Len(call.ret.value.calculations["restDayWork"].details) = 3
  /\ call.ret.value.calculations["restDayWork"].details[3].tag = "over8"
  /\ ~call.ret.value.calculations["restDayWork"].hasBreakdown
  /\ call.ret.value.calculations["restDayWork"].dailyBreakdown = <<>>

\* The last operation priced category c from a raw string of more than one
\* token.
MultiDay(c) ==
  /\ Priced4(c)
  /\ Len(HoursOf(call.args.workData[c])) > 1

\* The detail d is what the specification gives category c in multi-day
\* mode for the day values v, the hourly rate r and the emergency flag:
\* one row per day with hours > 0, in input order, carrying the position of
\* the day, its hours and its single-day pay; the pay the sum of the rows;
\* the narrative one line reporting the number of tokens.
BreakdownAsSpecified(c, d, v, rt, r, emergency) ==
  /\ d.hasBreakdown
  /\ Len(d.dailyBreakdown) =
       Cardinality({i \in 1..Len(v) : Less(Zero, v[i])})
  /\ \A k \in 1..Len(d.dailyBreakdown) :
       /\ d.dailyBreakdown[k].day \in 1..Len(v)
       /\ Less(Zero, v[d.dailyBreakdown[k].day])
       /\ d.dailyBreakdown[k].hours = v[d.dailyBreakdown[k].day]
       /\ d.dailyBreakdown[k].pay =
            CategoryDay(c, rt, v[d.dailyBreakdown[k].day], r, emergency)
       /\ d.dailyBreakdown[k].pay =
            InvokeMethod(rt, CategoryMethod(c, emergency),
                         v[d.dailyBreakdown[k].day], r).pay
  /\ \A k \in 1..(Len(d.dailyBreakdown) - 1) :
       d.dailyBreakdown[k].day < d.dailyBreakdown[k + 1].day
  /\ d.pay = PlusAll([k \in 1..Len(d.dailyBreakdown) |->
                        d.dailyBreakdown[k].pay])
  /\ Len(d.details) = 1
  /\ d.details[1].tag = "days"
  /\ d.details[1].hours = Num(Len(v))

\* C17: in multi-day mode the breakdown of a category has one row for
\* exactly the days with hours > 0, in input order, each with the day's
\* position in the input, its hours and the bracket function's pay; the
\* category pay is the sum of the rows; the narrative is one summary line
\* that reports the number of tokens, the excluded days included.
C17_MultiDayBreakdown ==
  \A c \in SeqRange(Categories) :
    MultiDay(c)
    => BreakdownAsSpecified(c, call.ret.value.calculations[c],
                            HoursOf(call.args.workData[c]), rates,
                            call.ret.value.hourlyRate,
                            call.args.workData.isEmergency)

\* C17 witness: "9,0,3" gave the rows of day 1 and day 3 and a summary line
\* reporting 3 days.
C17_Witness ==
  /\ MultiDay("weekdayOvertime")
  /\ call.args.workData.weekdayOvertime = <<"9", ",", "0", ",", "3">>
  /\ Len(call.ret.value.calculations["weekdayOvertime"].dailyBreakdown) = 2
  /\ call.ret.value.calculations["weekdayOvertime"].dailyBreakdown[1].day = 1
  /\ call.ret.value.calculations["weekdayOvertime"].dailyBreakdown[2].day = 3
  /\ call.ret.value.calculations["weekdayOvertime"].dailyBreakdown[2].hours =
       Num(3)
  /\ call.ret.value.calculations["weekdayOvertime"].details[1].hours = Num(3)

\* The recommended ceiling of a category.
RecommendedCeiling(c) == IF c = "weekdayOvertime" THEN Num(4) ELSE Num(8)

\* The largest of a non-empty sequence of finite numbers.
Largest(v) ==
  v[CHOOSE i \in 1..Len(v) : \A j \in 1..Len(v) : AtMost(v[j], v[i])]

\* The warnings of the list that name category c with the given text.
WarningsOf(warnings, c, tag) ==
  SelectSeq(warnings, LAMBDA w : w.type = c /\ w.tag = tag)

\* The warnings validateWorkHours returned for category c are those of the
\* specification for a string that parses: the recommended-ceiling warning
\* exactly when the largest day exceeds the ceiling, the legal-ceiling
\* warning exactly when it exceeds 12, each once and reporting that day.
CeilingsAsSpecified(warnings, c, v) ==
  /\ WarningsOf(warnings, c, "format") = <<>>
  /\ WarningsOf(warnings, c, "recommended") =
       (IF Less(RecommendedCeiling(c), Largest(v))
          THEN <<Warning("recommended", c, Largest(v), RecommendedCeiling(c))>>
          ELSE <<>>)
  /\ WarningsOf(warnings, c, "legal") =
       (IF Less(Num(12), Largest(v))
          THEN <<Warning("legal", c, Largest(v), Num(12))>>
          ELSE <<>>)

\* C18: for each category whose string is not blank and parses,
\* validateWorkHours warns of the recommended ceiling (4 for weekday
\* overtime, 8 for the others) exactly when the largest day exceeds it and
\* of the legal ceiling exactly when the largest day exceeds 12; a blank
\* category yields nothing; isValid is false exactly when there is a
\* warning; a day equal to a ceiling does not breach it.
C18_CeilingWarnings ==
  call.op = "validateWorkHours"
  => /\ \A c \in SeqRange(Categories) :
          /\ Blank(call.args.workData[c])
               => \A k \in 1..Len(call.ret.warnings) :
                    call.ret.warnings[k].type # c
          /\ (~Blank(call.args.workData[c])
                /\ ~Malformed(call.args.workData[c]))
               => CeilingsAsSpecified(call.ret.warnings, c,
                                      HoursOf(call.args.workData[c]))
     /\ call.ret.isValid <=> call.ret.warnings = <<>>

\* C18 witness: 4 weekday hours and 8 rest-day hours breach nothing, 12
\* holiday hours breach only the recommended ceiling, and "2,12.5" on the
\* regular day off breaches both.
C18_Witness ==
  /\ call.op = "validateWorkHours"
  /\ call.args.workData.weekdayOvertime = <<"4">>
  /\ call.args.workData.restDayWork = <<"8">>
  /\ call.args.workData.holidayWork = <<"1", "2">>
  /\ call.args.workData.regularDayOffWork = <<"2", ",", "1", "2", ".", "5">>
  /\ ~call.ret.isValid
  /\ call.ret.warnings =
       <<Warning("recommended", "holidayWork", Num(12), Num(8)),
         Warning("recommended", "regularDayOffWork", Fin(25, 2), Num(8)),
         Warning("legal", "regularDayOffWork", Fin(25, 2), Num(12))>>

\* The position of a category in the fixed order weekday, rest day,
\* holiday, regular day off.
CategoryIndex(c) == CHOOSE i \in 1..Len(Categories) : Categories[i] = c

\* The work data with every malformed string replaced by the empty string.
WithoutMalformed(workData) ==
  [f \in DOMAIN workData |->
     IF f \in SeqRange(Categories) /\ Malformed(workData[f])
       THEN <<>> ELSE workData[f]]

\* C19: validateWorkHours returns for every input; a category gets a format
\* warning, one, exactly when its string does not parse, and isValid is then
\* false; the warnings come in the order weekday, rest day, holiday,
\* regular day off; and the other warnings are those of the same work data
\* with the malformed strings empty.
C19_ValidationNeverFails ==
  call.op = "validateWorkHours"
  => /\ DOMAIN call.ret = {"isValid", "warnings"}
     /\ \A c \in SeqRange(Categories) :
          /\ WarningsOf(call.ret.warnings, c, "format") =
               (IF Malformed(call.args.workData[c])
                  THEN <<Warning("format", c, Zero, Zero)>> ELSE <<>>)
          /\ Malformed(call.args.workData[c]) => ~call.ret.isValid
     /\ \A k \in 1..(Len(call.ret.warnings) - 1) :
          CategoryIndex(call.ret.warnings[k].type)
            <= CategoryIndex(call.ret.warnings[k + 1].type)
     /\ SelectSeq(call.ret.warnings, LAMBDA w : w.tag # "format") =
          validateWorkHours(WithoutMalformed(call.args.workData)).warnings

\* C19 witness: the weekday string "a" does not parse and 13 rest-day hours
\* follow: one format warning, then the two ceiling warnings of the rest
\* day.
C19_Witness ==
  /\ call.op = "validateWorkHours"
  /\ call.args.workData.weekdayOvertime = <<"a">>
  /\ call.args.workData.restDayWork = <<"1", "3">>
  /\ call.args.workData.holidayWork = <<>>
  /\ call.args.workData.regularDayOffWork = <<>>
  /\ ~call.ret.isValid
  /\ call.ret.warnings =
       <<Warning("format", "weekdayOvertime", Zero, Zero),
         Warning("recommended", "restDayWork", Num(13), Num(8)),
         Warning("legal", "restDayWork", Num(13), Num(12))>>

\* A salary that is finite and > 0.
ValidSalary(x) == IsFinite(x) /\ x.n > 0

\* The last operation was calculateComprehensive with a valid salary.
CalculatedWithValidSalary ==
  /\ call.op = "calculateComprehensive"
  /\ ValidSalary(call.args.monthlySalary)

\* A format warning is among the warnings.
HasFormatWarning(warnings) ==
  \E k \in 1..Len(warnings) : warnings[k].tag = "format"

\* Hours above a ceiling are paid by the bracket formula, without a cap: a
\* category priced from one token above its recommended ceiling is paid the
\* single-day formula of that value; when the hourly rate is not 0 (a salary
\* of 1 has the hourly rate 0.00 to the nearest cent) that is more than the
\* ceiling would pay, and above 12 hours more than 12 hours would pay.
PricedWithoutCap ==
  \A c \in SeqRange(Categories) :
    (/\ SingleToken(c)
     /\ Less(RecommendedCeiling(c), HoursOf(call.args.workData[c])[1]))
    => /\ call.ret.value.calculations[c].pay =
            CategoryDay(c, rates, HoursOf(call.args.workData[c])[1],
                        call.ret.value.hourlyRate,
                        call.args.workData.isEmergency)
       /\ Less(Zero, call.ret.value.hourlyRate)
            => Less(CategoryDay(c, rates, RecommendedCeiling(c),
                                call.ret.value.hourlyRate,
                                call.args.workData.isEmergency),
                    call.ret.value.calculations[c].pay)
       /\ (/\ Less(Zero, call.ret.value.hourlyRate)
           /\ Less(Num(12), HoursOf(call.args.workData[c])[1]))
            => Less(CategoryDay(c, rates, Num(12),
                                call.ret.value.hourlyRate,
                                call.args.workData.isEmergency),
                    call.ret.value.calculations[c].pay)

\* The last call returned a result although the validation reports
\* warnings.
ReturnsDespiteWarnings(validation) == ~validation.isValid => ~call.ret.threw

\* C20 as stated: whenever validateWorkHours reports warnings for work data
\* and the salary is valid, calculateComprehensive returns a result; and
\* hours above the ceilings are priced without a cap.
C20_Original ==
  /\ CalculatedWithValidSalary
       => ReturnsDespiteWarnings(validateWorkHours(call.args.workData))
  /\ PricedWithoutCap

\* With ceiling warnings only the last call returned a result holding every
\* category used; with a format warning it failed with the format error and
\* the examples.
AdvisoryAsAmended(validation) ==
  /\ (~validation.isValid /\ ~HasFormatWarning(validation.warnings))
       => /\ ~call.ret.threw
          /\ DOMAIN call.ret.value.calculations =
               SeqRange(PresentCategories(call.args.workData))
  /\ HasFormatWarning(validation.warnings)
       => /\ ~validation.isValid
          /\ call.ret.threw
          /\ EndsWithExamples(call.ret.message)

\* C20 as amended: with a valid salary calculateComprehensive returns a
\* result whenever the warnings of validateWorkHours are ceiling warnings
\* only; when a format warning is among them the calculation fails with the
\* format error and the examples; and hours above the ceilings are priced
\* without a cap.
C20_AdvisoryValidation ==
  /\ CalculatedWithValidSalary
       => AdvisoryAsAmended(validateWorkHours(call.args.workData))
  /\ PricedWithoutCap

\* The validation warns of the legal ceiling for 13 weekday hours.
WarnsOfThirteen(validation) ==
  /\ ~validation.isValid
  /\ Len(validation.warnings) >= 2
  /\ validation.warnings[2] =
       Warning("legal", "weekdayOvertime", Num(13), Num(12))

\* C20 witness: 13 weekday hours draw the recommended and the legal warning
\* and are paid in full, more than 12 hours would be.
C20_Witness ==
  /\ CalculatedWithValidSalary
  /\ call.args.workData.weekdayOvertime = <<"1", "3">>
  /\ WarnsOfThirteen(validateWorkHours(call.args.workData))
  /\ ~call.ret.threw
  /\ call.ret.value.calculations["weekdayOvertime"].pay =
       WeekdaySingleDay(rates, Num(13), call.ret.value.hourlyRate,
                        call.args.workData.isEmergency)
  /\ Less(WeekdaySingleDay(rates, Num(12), call.ret.value.hourlyRate,
                           call.args.workData.isEmergency),
          call.ret.value.calculations["weekdayOvertime"].pay)

(***************************************************************************)
(* C21: shape of the weekday pay as a function of the hours                *)
(***************************************************************************)
\* The pay calculateWeekdayOvertime returns for h hours without the
\* emergency flag, at the hourly rate of the last call.
WeekdayPayAt(h) ==
  calculateWeekdayOvertime(rates, h, call.args.hourlyRate, FALSE).pay

\* The two slopes of the unrounded weekday pay: up to 2 hours, and beyond.
SlopeUpTo2 == Product3(Num(1), call.args.hourlyRate, rates.weekdayFirst2hr)
SlopeBeyond2 == Product3(Num(1), call.args.hourlyRate, rates.weekdayNext2hr)
GentlestSlope == IF Less(SlopeUpTo2, SlopeBeyond2) THEN SlopeUpTo2 ELSE SlopeBeyond2
SteepestSlope == IF Less(SlopeUpTo2, SlopeBeyond2) THEN SlopeBeyond2 ELSE SlopeUpTo2

OneCent == Fin(1, 100)

\* slope * (h2 - h1) as a real number.
Rise(slope, h1, h2) ==
  Fin(slope.n * Minus(h2, h1).n, slope.d * Minus(h2, h1).d)

\* h1, h2 and h3 lie in one piece of the pay: [0, 2], [2, 4] or [4, oo).
SamePiece(h1, h2, h3) ==
  \/ AtMost(h3, Num(2))
  \/ AtMost(Num(2), h1) /\ AtMost(h3, Num(4))
  \/ AtMost(Num(4), h1)

\* p1 < p2: more hours are paid strictly more.
PaidStrictlyMore(p1, p2) == Less(p1, p2)

\* No jump between h1 < h2, at a threshold or elsewhere: the pay rises by no
\* more than the steepest slope allows, one cent of rounding apart.
NoJump(h1, p1, h2, p2) ==
  AtMost(Minus(p2, p1), Plus(Rise(SteepestSlope, h1, h2), OneCent))

\* The pay is linear on h1 < h2 < h3 equally spaced: its second difference
\* is zero, the three roundings (half a cent each, the middle one counted
\* twice) apart.
Linear(p1, p2, p3) ==
  /\ AtMost(Minus(Plus(p1, p3), Plus(p2, p2)), Fin(2, 100))
  /\ AtMost(Minus(Plus(p2, p2), Plus(p1, p3)), Fin(2, 100))

\* Continuity at the thresholds and constant slope inside each piece, seen
\* from the hours h of the last call and the pay p it returned.
ContinuousAndPiecewiseLinear(h, p) ==
  /\ \A h2 \in HoursValues :
       Less(h, h2) => NoJump(h, p, h2, WeekdayPayAt(h2))
  /\ \A h1, h3 \in HoursValues :
       /\ Less(Zero, h1) /\ Less(h1, h) /\ Less(h, h3)
       /\ Minus(h, h1) = Minus(h3, h)
       /\ SamePiece(h1, h, h3)
       => Linear(WeekdayPayAt(h1), p, WeekdayPayAt(h3))

\* C21 as stated: without the emergency flag and for hours > 0 the returned
\* pay is strictly increasing in the hours, continuous at 2 and 4 hours, and
\* changes slope only at 2 and 4 hours.
C21_Original ==
  WeekdayCall(FALSE)
  => /\ \A h2 \in HoursValues :
          Less(call.args.hours, h2)
          => PaidStrictlyMore(call.ret.pay, WeekdayPayAt(h2))
     /\ ContinuousAndPiecewiseLinear(call.args.hours, call.ret.pay)

\* More hours are never paid less, and are paid strictly more once the
\* gentlest slope makes them worth a cent.
Increasing(h1, p1, h2, p2) ==
  /\ AtMost(p1, p2)
  /\ AtMost(OneCent, Rise(GentlestSlope, h1, h2)) => Less(p1, p2)

\* C21 as amended: the returned pay, being rounded to the cent, is
\* non-decreasing in the hours and strictly increasing between hours whose
\* pays differ by at least a cent before rounding; it has no jump at 2 or 4
\* hours and, rounding apart, changes slope only there.
C21_WeekdayPayShape ==
  WeekdayCall(FALSE)
  => /\ \A h2 \in HoursValues :
          Less(call.args.hours, h2)
          => Increasing(call.args.hours, call.ret.pay, h2, WeekdayPayAt(h2))
     /\ ContinuousAndPiecewiseLinear(call.args.hours, call.ret.pay)

\* C21 witness: half an hour at an hourly rate of 0.01 under the default
\* rates was paid one cent, and so are three quarters of an hour.
C21_Witness ==
  /\ WeekdayCall(FALSE)
  /\ rates = DEFAULT_RATES
  /\ call.args.hourlyRate = OneCent
  /\ call.args.hours = Fin(1, 2)
  /\ call.ret.pay = OneCent
  /\ WeekdayPayAt(Fin(3, 4)) = OneCent

(***************************************************************************)
(* C29: ceiling mode never pays less than nearest-cent mode                *)
(***************************************************************************)
\* a >= b, for amounts that are finite or +Infinity.
AtLeast(a, b) ==
  \/ a.k = "pinf"
  \/ IsFinite(a) /\ IsFinite(b) /\ AtMost(b, a)

\* The last operation was the wage-base function op in ceiling mode, with a
\* salary > 0.
CeilingWageCall(op) ==
  /\ call.op = op
  /\ call.args.useCeiling
  /\ SalaryAccepted(call.args.salary)

\* The last operation was calculateComprehensive in ceiling mode, with a
\* salary > 0.
CeilingCalculation ==
  /\ call.op = "calculateComprehensive"
  /\ call.args.useCeilingCalculation
  /\ SalaryAccepted(call.args.monthlySalary)

\* The outcome in ceiling mode is no less than the outcome nearest of the
\* same call in nearest-cent mode: both fail alike, or both return the same
\* categories and the wage base, every category's pay and the total are no
\* less.
NoLessThan(ceiling, nearest) ==
  IF nearest.threw THEN ceiling = nearest
  ELSE /\ ~ceiling.threw
       /\ AtLeast(ceiling.value.hourlyRate, nearest.value.hourlyRate)
       /\ AtLeast(ceiling.value.dailyWage, nearest.value.dailyWage)
       /\ DOMAIN ceiling.value.calculations = DOMAIN nearest.value.calculations
       /\ \A c \in DOMAIN nearest.value.calculations :
            AtLeast(ceiling.value.calculations[c].pay,
                    nearest.value.calculations[c].pay)
       /\ AtLeast(ceiling.value.totalPay, nearest.value.totalPay)

\* C29: for a salary > 0 the hourly rate and the daily wage of ceiling mode
\* are no less than those of nearest-cent mode, and so are every category's
\* pay and the total pay of calculateComprehensive on the same work input
\* and rate table.
C29_CeilingNeverPaysLess ==
  /\ CeilingWageCall("calculateHourlyRate")
       => AtLeast(call.ret, calculateHourlyRate(call.args.salary, FALSE))
  /\ CeilingWageCall("calculateDailyWage")
       => AtLeast(call.ret, calculateDailyWage(call.args.salary, FALSE))
  /\ CeilingCalculation
       => NoLessThan(call.ret,
            calculateComprehensive(rates, call.args.monthlySalary,
                                   call.args.workData, FALSE))

\* The total pay of ceiling is strictly more than that of nearest.
PaysMore(ceiling, nearest) ==
  /\ ~ceiling.threw
  /\ ~nearest.threw
  /\ Less(nearest.value.totalPay, ceiling.value.totalPay)

\* C29 witness: a salary of 7250, whose hourly rate is 31 in ceiling mode
\* and 30.21 to the nearest cent, was priced in ceiling mode for several
\* weekdays and the total is strictly more than in nearest-cent mode.
C29_Witness ==
  /\ CeilingCalculation
  /\ call.args.monthlySalary = Num(7250)
  /\ Len(HoursOf(call.args.workData.weekdayOvertime)) > 1
  /\ PaysMore(call.ret,
       calculateComprehensive(rates, call.args.monthlySalary,
                              call.args.workData, FALSE))

(***************************************************************************)
(* C30: pay is never negative                                              *)
(***************************************************************************)
\* The last operation was one of the three bracket functions.
BracketCall ==
  call.op \in {"calculateWeekdayOvertime", "calculateRestDayOvertime",
               "calculateHolidayPay"}

\* The category a call of a bracket function prices.
BracketCategory ==
  CASE call.op = "calculateWeekdayOvertime" -> "weekdayOvertime"
    [] call.op = "calculateRestDayOvertime" -> "restDayWork"
    [] call.op = "calculateHolidayPay" ->
         (IF call.args.holidayType = "regular"
            THEN "regularDayOffWork" ELSE "holidayWork")

\* A day of h hours of category c is worth nothing: it has no hours > 0, or
\* its priced amount rounds to 0 cents.
WorthNothing(c, h, r, emergency) ==
  \/ AtMost(h, Zero)
  \/ CategoryDay(c, rates, h, r, emergency) = Zero

\* No row of a per-day breakdown has a negative pay.
NoNegativeRow(detail) ==
  \A k \in 1..Len(detail.dailyBreakdown) :
    AtLeast(detail.dailyBreakdown[k].pay, Zero)

\* The pay of category c is 0 exactly when every day of hours is worth
\* nothing.
ZeroExactlyWhenWorthless(c, pay, hours, r, emergency) ==
  pay = Zero <=> \A i \in 1..Len(hours) :
                   WorthNothing(c, hours[i], r, emergency)

\* C30: with a salary > 0, accepted hour strings (zero and negative tokens
\* included) and positive multipliers, the pay of every bracket function, of
\* every per-day breakdown row and of every category, and the total pay, are
\* >= 0; a pay is 0 exactly when no day has hours > 0 or what is priced
\* rounds to 0 cents.
C30_PayNeverNegative ==
  /\ BracketCall
       => /\ AtLeast(call.ret.pay, Zero)
          /\ ZeroExactlyWhenWorthless(BracketCategory, call.ret.pay,
               <<call.args.hours>>, call.args.hourlyRate,
               call.op = "calculateWeekdayOvertime" /\ call.args.isEmergency)
  /\ (ReturnedFrom("calculateComprehensive")
        /\ SalaryAccepted(call.args.monthlySalary))
       => /\ AtLeast(call.ret.value.totalPay, Zero)
          /\ \A c \in DOMAIN call.ret.value.calculations :
               /\ AtLeast(call.ret.value.calculations[c].pay, Zero)
               /\ NoNegativeRow(call.ret.value.calculations[c])
               /\ FiniteResult
                    => ZeroExactlyWhenWorthless(c,
                         call.ret.value.calculations[c].pay,
                         HoursOf(call.args.workData[c]),
                         call.ret.value.hourlyRate,
                         call.args.workData.isEmergency)

\* C30 witness: a rest-day string "-2" and a regular-day-off string
\* "4,-1,6" were priced with a salary of 24000; the rest day is paid 0 and the
\* regular days off are paid for two days, more than 0.
C30_Witness ==
  /\ FiniteResult
  /\ call.args.monthlySalary = Num(24000)
  /\ call.args.workData.restDayWork = <<"-", "2">>
  /\ call.args.workData.regularDayOffWork = <<"4", ",", "-", "1", ",", "6">>
  /\ call.ret.value.calculations["restDayWork"].pay = Zero
  /\ Len(call.ret.value.calculations["regularDayOffWork"].dailyBreakdown) = 2
  /\ Less(Zero, call.ret.value.calculations["regularDayOffWork"].pay)
  /\ Less(Zero, call.ret.value.totalPay)

(***************************************************************************)
(* C27: the component's inline calculation and the service agree           *)
(***************************************************************************)
\* The outcome of a click agrees with the outcome service of the same
\* calculation by a service holding the default rate table: an alert
\* exactly when the service throws, and otherwise the service's result
\* stored.
AgreesWithService(click, service) ==
  /\ click.alerted <=> service.threw
  /\ ~service.threw
       => /\ click.completed
          /\ click.results.hourlyRate = service.value.hourlyRate
          /\ click.results.dailyWage = service.value.dailyWage
          /\ DOMAIN click.results.calculations
               = DOMAIN service.value.calculations
          /\ \A c \in DOMAIN service.value.calculations :
               /\ click.results.calculations[c].pay
                    = service.value.calculations[c].pay
               /\ click.results.calculations[c].details
                    = service.value.calculations[c].details
               /\ click.results.calculations[c].hasBreakdown
                    = service.value.calculations[c].hasBreakdown
               /\ click.results.calculations[c].dailyBreakdown
                    = service.value.calculations[c].dailyBreakdown
          /\ click.results.totalPay = service.value.totalPay

\* C27: for every salary text, hour strings, emergency flag and rounding
\* flag, a click on the component's calculate button stores the result that
\* calculateComprehensive of a service with the default rate table returns
\* for the same inputs, and alerts exactly when that call throws.
C27_ComponentMatchesService ==
  call.op = "component.calculateComprehensive"
  => AgreesWithService(call.ret,
       calculateComprehensive(DEFAULT_RATES,
         parseFloat(call.args.monthlySalary), call.args.workData,
         call.args.useCeilingCalculation))

\* C27 witness: a click with a salary of 7250 in nearest-cent mode, several
\* weekdays and a day of regular day off stored a result holding both
\* categories, the regular day off paid at the multiplier 2.
C27_Witness ==
  /\ call.op = "component.calculateComprehensive"
  /\ call.args.monthlySalary = <<"7", "2", "5", "0">>
  /\ ~call.args.useCeilingCalculation
  /\ ~call.ret.alerted
  /\ call.args.workData.weekdayOvertime = <<"9", ",", "2", ".", "5">>
  /\ call.args.workData.regularDayOffWork = <<"8">>
  /\ call.ret.results.hourlyRate = Fin(3021, 100)
  /\ call.ret.results.calculations["weekdayOvertime"].hasBreakdown
  /\ call.ret.results.calculations["regularDayOffWork"].pay
       = CentRounded(Product3(Num(8), Fin(3021, 100), Num(2)))

(***************************************************************************)
(* C22: determinism of calculateComprehensive                              *)
(***************************************************************************)
\* The last operation repeats the calculation the caller kept the outcome
\* of: the same salary, work input and rounding flag.
RepeatsEarlier ==
  /\ call.op = "calculateComprehensive"
  /\ earlier.call.op = "calculateComprehensive"
  /\ call.args.monthlySalary = earlier.call.args.monthlySalary
  /\ call.args.workData = earlier.call.args.workData
  /\ call.args.useCeilingCalculation = earlier.call.args.useCeilingCalculation

StoreCall(op) == call.op = op

EightFields(table) == DOMAIN table = RateKeys

OnlyKeyChanged(before, after, key, value) ==
  /\ after.customRates[key] = value
  /\ \A k \in RateKeys \ {key} : after.customRates[k] = before.customRates[k]
  /\ after.useCeilingCalculation = before.useCeilingCalculation

C24_StoreFrame ==
  /\ EightFields(rateStore.customRates)
  /\ StoreCall("setCustomRates") =>
       OnlyKeyChanged(call.args.before, rateStore,
                      call.args.key, call.args.value)
  /\ StoreCall("setUseCeilingCalculation") =>
       /\ rateStore.customRates = call.args.before.customRates
       /\ rateStore.useCeilingCalculation = call.args.value
  /\ StoreCall("resetCustomRates") =>
       /\ rateStore.customRates = StoreDefaultRates
       /\ rateStore.useCeilingCalculation =
            call.args.before.useCeilingCalculation
  /\ StoreCall("resetAllSettings") =>
       /\ rateStore.customRates = StoreDefaultRates
       /\ rateStore.useCeilingCalculation

\* setCustomRates on a store that already holds another custom multiplier
\* and the nearest-cent flag.
C24_Witness ==
  /\ StoreCall("setCustomRates")
  /\ call.args.key = "holidayRate"
  /\ call.args.value = Num(3)
  /\ call.args.before.customRates.holidayRate = Num(2)
  /\ call.args.before.customRates.weekdayFirst2hr = Num(3)
  /\ ~call.args.before.useCeilingCalculation
  /\ rateStore.customRates.holidayRate = Num(3)
  /\ rateStore.customRates.weekdayFirst2hr = Num(3)

\* ---------------------------------------------------------------------
\* C26: the settings form. Starting from initial rates that are all > 0,
\* every multiplier of formData.customRates is > 0 and finite at all
\* times; a blur with an empty, non-numeric, malformed-fraction, zero or
\* negative text leaves formData as it was and puts the text of the last
\* valid value back; the data handed to onConfirm is a valid rate table.
\* ---------------------------------------------------------------------
ValidMultiplier(rate) == IsFinite(rate) /\ NumGt(rate, Zero)

ValidRateTable(table) == \A k \in DOMAIN table : ValidMultiplier(table[k])

\* The texts the claim lists as rejected.
RejectedTexts ==
  {<<>>, <<" ">>, <<"a">>, <<"0">>, <<"-", "1">>,
   <<"1", "/", "0">>, <<"1", "/", "2", "/", "3">>}

BlurRestores ==
  (call.op = "handleInputBlur" /\ call.args.value \in RejectedTexts) =>
    /\ settingsForm.formData = call.args.before.formData
    /\ settingsForm.inputValues[call.args.field] =
         getRateInputValue(
           call.args.before.formData.customRates[call.args.field])

C26_FormRatesValid ==
  /\ ValidRateTable(settingsForm.formData.customRates)
  /\ BlurRestores
  /\ call.op = "onConfirm" => ValidRateTable(call.args.formData.customRates)

\* ---------------------------------------------------------------------
\* C28: in the SalaryCalculator component, whenever a result is displayed,
\* the rounding mode shown with it (the current toggle) is the mode its
\* hourlyRate and totalPay were computed under, and the result is the one
\* of the inputs currently in the form: a click on "calculate" now would
\* complete and store the very result that is displayed.
\* ---------------------------------------------------------------------
Displayed(state) == state.results # NoResults

\* What a click on the form as it stands would do, nothing stored before.
ClickNow(state) ==
  compCalculateComprehensive(state.monthlySalary, state.workData,
                             state.useCeilingCalculation, NoResults)

UpToDate(state, click) ==
  /\ click.completed
  /\ click.results = state.results

C28_DisplayConsistent ==
  Displayed(component) => UpToDate(component, ClickNow(component))

\* ---------------------------------------------------------------------
\* C25: the rate table a service instance calculates with is the table
\* that was handed to its constructor or to its last updateRates, as it
\* was at that moment: no calculation call, no assignment by the caller to
\* an object returned by getCurrentRates or handed to the constructor or
\* to updateRates, and no call on another instance changes it.
\* ---------------------------------------------------------------------
C25_RatesChangeOnlyByUpdateRates ==
  \A i \in Instances : ThisRates(heap, services[i]) = services[i].configured

\* ---------------------------------------------------------------------
\* C23: a rate table with a multiplier <= 0 or non-finite is rejected when
\* it is configured (constructor, updateRates, createCustomCalculator):
\* the call fails, and every multiplier an instance calculates with is
\* > 0 and finite.
\* ---------------------------------------------------------------------
ConfigurationCalls == {"constructor", "updateRates", "createCustomCalculator"}

C23_InvalidRatesRejected ==
  /\ (call.op \in ConfigurationCalls /\ ~ValidRateTable(call.args.rates))
       => call.ret.threw
  /\ \A i \in Instances : ValidRateTable(ThisRates(heap, services[i]))
=============================================================================
